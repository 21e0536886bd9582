-------------------------- MODULE LwsParserProofs --------------------------
(***************************************************************************)
(* The two byte-by-byte parsers of libwebsockets.  The table of headers     *)
(* stays inside its arrays, its chains run upwards, and of every header it  *)
(* gives back all the values sent, for every size of the arrays and         *)
(* whatever lines the peer sends.  The receive state machine gives the user *)
(* what the other end wrote, for every length, masking key, buffer size and *)
(* number of frames.                                                        *)
(***************************************************************************)
EXTENDS LwsHeaders, LwsRx, TLAPS, WellFoundedInduction

---------------------------------------------------------------------------
(* Sequences *)

(* A set of naturals has a smallest element. *)
LEMMA SmallestIn ==
  ASSUME NEW S, S \subseteq Nat, S # {}
  PROVE  \E x \in S : \A y \in S : x <= y
<1>1. PICK x \in S : \A y \in S : ~(<<y, x>> \in OpToRel(<, Nat))
  BY NatLessThanWellFounded, WFMin, Zenon
<1>2. ASSUME NEW y \in S PROVE x <= y
  <2>1. x \in Nat /\ y \in Nat
    OBVIOUS
  <2>2. ~(y < x)
    BY <1>1, <2>1, Zenon DEF OpToRel
  <2> QED BY <2>1, <2>2
<1> QED BY <1>2

(* Sequences put together, place by place. *)
LEMMA ConcatAt ==
  ASSUME NEW T, NEW s \in Seq(T), NEW t \in Seq(T)
  PROVE  /\ s \o t \in Seq(T) /\ Len(s \o t) = Len(s) + Len(t)
         /\ \A i \in 1 .. Len(s) : (s \o t)[i] = s[i]
         /\ \A i \in Len(s) + 1 .. Len(s) + Len(t) : (s \o t)[i] = t[i - Len(s)]
OBVIOUS

LEMMA AppendAt ==
  ASSUME NEW T, NEW s \in Seq(T), NEW x \in T
  PROVE  /\ Append(s, x) \in Seq(T) /\ Len(Append(s, x)) = Len(s) + 1
         /\ \A i \in 1 .. Len(s) : Append(s, x)[i] = s[i]
         /\ Append(s, x)[Len(s) + 1] = x
OBVIOUS

LEMMA TailAt ==
  ASSUME NEW T, NEW s \in Seq(T), s # <<>>
  PROVE  /\ Tail(s) \in Seq(T) /\ Len(s) \in Nat \ {0} /\ Len(Tail(s)) = Len(s) - 1
         /\ \A i \in 1 .. Len(s) - 1 : Tail(s)[i] = s[i + 1]
         /\ Head(s) = s[1] /\ s[1] \in T
OBVIOUS

LEMMA ElementAt ==
  ASSUME NEW T, NEW s \in Seq(T), NEW i \in 1 .. Len(s)
  PROVE  s[i] \in T
OBVIOUS

LEMMA SameSeq ==
  ASSUME NEW T, NEW s \in Seq(T), NEW t \in Seq(T), Len(s) = Len(t),
         \A i \in 1 .. Len(s) : s[i] = t[i]
  PROVE  s = t
OBVIOUS

LEMMA EmptySeq ==
  ASSUME NEW T, NEW s \in Seq(T)
  PROVE  s = <<>> <=> Len(s) = 0
OBVIOUS

LEMMA EmptyConcat ==
  ASSUME NEW T, NEW s \in Seq(T)
  PROVE  s \o <<>> = s /\ <<>> \o s = s
OBVIOUS

LEMMA ConcatAssoc ==
  ASSUME NEW T, NEW s \in Seq(T), NEW t \in Seq(T), NEW u \in Seq(T)
  PROVE  (s \o t) \o u = s \o (t \o u)
<1> DEFINE a == (s \o t) \o u
           b == s \o (t \o u)
<1>1. /\ a \in Seq(T) /\ b \in Seq(T) /\ Len(a) = Len(b) /\ Len(a) = Len(s) + Len(t) + Len(u)
  BY ConcatAt
<1>2. ASSUME NEW i \in 1 .. Len(a) PROVE a[i] = b[i]
  OBVIOUS
<1> HIDE DEF a, b
<1>3. a = b
  BY <1>1, <1>2, SameSeq
<1> QED BY <1>3 DEF a, b

(* A sequence given place by place. *)
LEMMA GivenAt ==
  ASSUME NEW T, NEW n \in Nat, NEW g \in [1 .. n -> T]
  PROVE  g \in Seq(T) /\ Len(g) = n
OBVIOUS

---------------------------------------------------------------------------
(* The table of headers *)

Fragments == [offset : Nat, len : Nat, next : Nat]

TableTypes ==
  /\ frags \in Seq(Fragments) /\ data \in Seq(Chars \cup {NUL})
  /\ dropped \in BOOLEAN

HeadersInv == TableTypes /\ TableSound

States == {"NAME_PART", "SKIPPING", "SKIPPING_SAW_CR", "PARSING_COMPLETE"}

(* The part of TableSound about one fragment, the k-th of f, with n characters stored. *)
FragmentOK(f, k, n) ==
  /\ f[k].next = 0 \/ f[k].next \in k + 1 .. Len(f)
  /\ f[k].offset + f[k].len <= n

(* The table itself, whatever the parser is doing. *)
TableIn(fi, f, d) ==
  /\ f \in Seq(Fragments) /\ d \in Seq(Chars \cup {NUL})
  /\ Len(d) <= DataSize /\ Len(f) < NFrags
  /\ fi \in [Headers -> 0 .. Len(f)]
  /\ \A k \in 1 .. Len(f) : FragmentOK(f, k, Len(d))

(* The chains of the table share nothing. *)
Apart(fi, f) ==
  /\ \A j, k \in 1 .. Len(f) : f[j].next # 0 /\ f[j].next = f[k].next => j = k
  /\ \A g \in Headers : fi[g] # 0 =>
       /\ \A h \in Headers : fi[h] = fi[g] => h = g
       /\ \A k \in 1 .. Len(f) : f[k].next # fi[g]
  /\ \A k \in 1 .. Len(f) - 1 : f[k].offset + f[k].len <= f[k + 1].offset

ParserOK(ps, fi, drop) ==
  /\ ps \in Headers \cup States /\ drop \in BOOLEAN
  /\ ps \in Headers /\ ~drop => fi[ps] # 0

LEMMA InvParts ==
  HeadersInv <=> /\ TableIn(frag_index, frags, data) /\ Apart(frag_index, frags)
                 /\ ParserOK(parser_state, frag_index, dropped)
BY DEF HeadersInv, TableTypes, TableSound, FragmentsApart, Apart, TableIn, ParserOK, FragmentOK, States, InValue, pos, next_frag_index

LEMMA InvPartsNext ==
  HeadersInv' <=> /\ TableIn(frag_index', frags', data') /\ Apart(frag_index', frags')
                  /\ ParserOK(parser_state', frag_index', dropped')
BY DEF HeadersInv, TableTypes, TableSound, FragmentsApart, Apart, TableIn, ParserOK, FragmentOK, States, InValue, pos, next_frag_index

(* The parts of the assumption on the constants that the proofs cite most. *)
LEMMA Sizes == NFrags \in Nat /\ NFrags # 0 /\ DataSize \in Nat
BY HeadersAssumption

LEMMA ClientTokensKnown == \A h \in ClientTokens : h \in Headers
BY HeadersAssumption

(* A field of a fragment is changed. *)
LEMMA NextSet ==
  ASSUME NEW r \in Fragments, NEW n \in Nat
  PROVE  LET u == [r EXCEPT !.next = n] IN
         u \in Fragments /\ u.offset = r.offset /\ u.len = r.len /\ u.next = n
BY DEF Fragments

LEMMA LenCounted ==
  ASSUME NEW r \in Fragments
  PROVE  LET u == [r EXCEPT !.len = @ + 1] IN
         u \in Fragments /\ u.offset = r.offset /\ u.len = r.len + 1 /\ u.next = r.next
BY DEF Fragments

(* The fragments after each of the three ways to change them. *)
LEMMA MoreAt ==
  ASSUME NEW f \in Seq(Fragments), NEW o \in Nat, NEW m \in Nat
  PROVE  LET g == Append(f, [offset |-> o, len |-> m, next |-> 0]) IN
         /\ g \in Seq(Fragments) /\ Len(g) = Len(f) + 1
         /\ \A k \in 1 .. Len(f) : g[k] = f[k]
         /\ g[Len(f) + 1] = [offset |-> o, len |-> m, next |-> 0]
BY DEF Fragments

LEMMA LinkedAt ==
  ASSUME NEW f \in Seq(Fragments), NEW l
  PROVE  LET g == [f EXCEPT ![l].next = Len(f) + 1] IN
         /\ g \in Seq(Fragments) /\ Len(g) = Len(f)
         /\ \A k \in 1 .. Len(f) :
              /\ g[k].offset = f[k].offset /\ g[k].len = f[k].len
              /\ g[k].next = IF k = l THEN Len(f) + 1 ELSE f[k].next
<1> DEFINE g == [f EXCEPT ![l].next = Len(f) + 1]
<1>0. Len(f) \in Nat /\ DOMAIN f = 1 .. Len(f)
  OBVIOUS
<1>1. \A k \in 1 .. Len(f) :
        /\ f[k] \in Fragments
        /\ g[k] = IF k = l THEN [f[k] EXCEPT !.next = Len(f) + 1] ELSE f[k]
  BY <1>0
<1>2. ASSUME NEW k \in 1 .. Len(f)
      PROVE  /\ g[k] \in Fragments /\ g[k].offset = f[k].offset /\ g[k].len = f[k].len
             /\ g[k].next = IF k = l THEN Len(f) + 1 ELSE f[k].next
  <2>1. CASE k = l
    <3>1. g[k] = [f[k] EXCEPT !.next = Len(f) + 1] /\ f[k] \in Fragments
      BY <1>1, <2>1
    <3>2. PICK n \in Nat : n = Len(f) + 1
      BY <1>0
    <3> HIDE DEF g
    <3>3. g[k] = [f[k] EXCEPT !.next = n]
      BY <3>1, <3>2
    <3>4. f[k] \in Fragments
      BY <3>1
    <3>5. g[k] \in Fragments /\ g[k].offset = f[k].offset /\ g[k].len = f[k].len /\ g[k].next = n
      BY <3>3, <3>4, NextSet
    <3> QED BY <2>1, <3>2, <3>5
  <2>2. CASE k # l
    <3>1. g[k] = f[k] /\ f[k] \in Fragments
      BY <1>1, <2>2
    <3> QED BY <2>2, <3>1
  <2> QED BY <2>1, <2>2
<1>3. g \in Seq(Fragments) /\ Len(g) = Len(f)
  <2>1. g \in [1 .. Len(f) -> Fragments]
    BY <1>0, <1>2
  <2> HIDE DEF g
  <2> QED BY <1>0, <2>1
<1> HIDE DEF g
<1>4. /\ g \in Seq(Fragments) /\ Len(g) = Len(f)
      /\ \A k \in 1 .. Len(f) :
              /\ g[k].offset = f[k].offset /\ g[k].len = f[k].len
              /\ g[k].next = IF k = l THEN Len(f) + 1 ELSE f[k].next
  BY <1>2, <1>3
<1> QED BY <1>4 DEF g

LEMMA CountedAt ==
  ASSUME NEW f \in Seq(Fragments)
  PROVE  LET g == [f EXCEPT ![Len(f)].len = @ + 1] IN
         /\ g \in Seq(Fragments) /\ Len(g) = Len(f)
         /\ \A k \in 1 .. Len(f) :
              /\ g[k].offset = f[k].offset /\ g[k].next = f[k].next
              /\ g[k].len = IF k = Len(f) THEN f[k].len + 1 ELSE f[k].len
<1> DEFINE g == [f EXCEPT ![Len(f)].len = @ + 1]
<1>0. Len(f) \in Nat /\ DOMAIN f = 1 .. Len(f)
  OBVIOUS
<1>1. \A k \in 1 .. Len(f) :
        /\ f[k] \in Fragments
        /\ g[k] = IF k = Len(f) THEN [f[k] EXCEPT !.len = @ + 1] ELSE f[k]
  BY <1>0
<1>2. ASSUME NEW k \in 1 .. Len(f)
      PROVE  /\ g[k] \in Fragments /\ g[k].offset = f[k].offset /\ g[k].next = f[k].next
             /\ g[k].len = IF k = Len(f) THEN f[k].len + 1 ELSE f[k].len
  <2>1. CASE k = Len(f)
    <3>1. g[k] = [f[k] EXCEPT !.len = @ + 1] /\ f[k] \in Fragments
      BY <1>1, <2>1
    <3> HIDE DEF g
    <3>2. g[k] \in Fragments /\ g[k].offset = f[k].offset /\ g[k].len = f[k].len + 1 /\ g[k].next = f[k].next
      BY <3>1, LenCounted
    <3> QED BY <2>1, <3>2
  <2>2. CASE k # Len(f)
    <3>1. g[k] = f[k] /\ f[k] \in Fragments
      BY <1>1, <2>2
    <3> QED BY <2>2, <3>1
  <2> QED BY <2>1, <2>2
<1>3. g \in Seq(Fragments) /\ Len(g) = Len(f)
  <2>1. g \in [1 .. Len(f) -> Fragments]
    BY <1>0, <1>2
  <2> HIDE DEF g
  <2> QED BY <1>0, <2>1
<1> HIDE DEF g
<1>4. /\ g \in Seq(Fragments) /\ Len(g) = Len(f)
      /\ \A k \in 1 .. Len(f) :
              /\ g[k].offset = f[k].offset /\ g[k].next = f[k].next
              /\ g[k].len = IF k = Len(f) THEN f[k].len + 1 ELSE f[k].len
  BY <1>2, <1>3
<1> QED BY <1>4 DEF g

(* What is known of a fragment of the table. *)
LEMMA FragmentIs ==
  ASSUME NEW fi, NEW f, NEW d, TableIn(fi, f, d), NEW k \in 1 .. Len(f)
  PROVE  /\ f[k].next \in 0 .. Len(f) /\ f[k].offset \in Nat /\ f[k].len \in Nat
         /\ f[k].next = 0 \/ f[k].next \in k + 1 .. Len(f)
         /\ f[k].offset + f[k].len <= Len(d)
<1>1. f[k] \in Fragments /\ FragmentOK(f, k, Len(d)) /\ Len(f) \in Nat
  BY DEF TableIn
<1>2. f[k].next = 0 \/ f[k].next \in k + 1 .. Len(f)
  BY <1>1 DEF FragmentOK
<1>3. f[k].offset \in Nat /\ f[k].len \in Nat /\ f[k].offset + f[k].len <= Len(d)
  BY <1>1 DEF FragmentOK, Fragments
<1>4. f[k].next \in 0 .. Len(f)
  BY <1>1, <1>2
<1> QED BY <1>2, <1>3, <1>4

(* A fragment more, of m characters, and with it the first of a header that had none. *)
LEMMA OneMore ==
  ASSUME NEW fi, NEW f, NEW d, TableIn(fi, f, d), Apart(fi, f), Len(f) + 1 # NFrags,
         NEW h \in Headers, fi[h] = 0,
         NEW e \in Seq(Chars \cup {NUL}), Len(e) <= DataSize, NEW m \in Nat, Len(e) >= Len(d) + m
  PROVE  LET g == Append(f, [offset |-> Len(d), len |-> m, next |-> 0])
             fj == [fi EXCEPT ![h] = Len(f) + 1]
         IN TableIn(fj, g, e) /\ Apart(fj, g) /\ fj[h] = Len(f) + 1
<1> DEFINE g == Append(f, [offset |-> Len(d), len |-> m, next |-> 0])
           fj == [fi EXCEPT ![h] = Len(f) + 1]
<1>0. /\ Len(f) \in Nat /\ Len(d) \in Nat /\ Len(e) \in Nat /\ NFrags \in Nat /\ Len(f) < NFrags
      /\ f \in Seq(Fragments) /\ fi \in [Headers -> 0 .. Len(f)]
  BY Sizes DEF TableIn
<1>1. /\ g \in Seq(Fragments) /\ Len(g) = Len(f) + 1
      /\ \A k \in 1 .. Len(f) : g[k] = f[k]
      /\ g[Len(f) + 1] = [offset |-> Len(d), len |-> m, next |-> 0]
  BY <1>0, MoreAt
<1>2. /\ fj \in [Headers -> 0 .. Len(f) + 1] /\ fj[h] = Len(f) + 1
      /\ \A i \in Headers : i # h => fj[i] = fi[i] /\ fi[i] \in 0 .. Len(f)
  BY <1>0
<1> HIDE DEF g, fj
<1>3. \A k \in 1 .. Len(g) : k \in 1 .. Len(f) \/ k = Len(f) + 1
  BY <1>0, <1>1
<1>4. \A k \in 1 .. Len(f) :
        /\ f[k].next \in 0 .. Len(f) /\ f[k].offset \in Nat /\ f[k].len \in Nat
        /\ f[k].next = 0 \/ f[k].next \in k + 1 .. Len(f)
        /\ f[k].offset + f[k].len <= Len(d)
  BY FragmentIs
<1>5. TableIn(fj, g, e)
  <2>1. ASSUME NEW k \in 1 .. Len(g) PROVE FragmentOK(g, k, Len(e))
    <3>1. CASE k \in 1 .. Len(f)
      <4>1. g[k] = f[k]
        BY <1>1, <3>1
      <4>2. f[k].next = 0 \/ f[k].next \in k + 1 .. Len(g)
        BY <1>0, <1>1, <1>4, <3>1, SMTT(60)
      <4>3. f[k].offset + f[k].len <= Len(e)
        <5>1. f[k].offset \in Nat /\ f[k].len \in Nat /\ f[k].offset + f[k].len <= Len(d)
          BY <1>4, <3>1
        <5> QED BY <1>0, <5>1, SMTT(60)
      <4> QED BY <4>1, <4>2, <4>3 DEF FragmentOK
    <3>2. CASE k = Len(f) + 1
      BY <1>0, <1>1, <3>2 DEF FragmentOK
    <3> QED BY <1>3, <3>1, <3>2
  <2>2. Len(g) < NFrags
    BY <1>0, <1>1
  <2> QED BY <1>1, <1>2, <2>1, <2>2 DEF TableIn
<1>6. ASSUME NEW j \in 1 .. Len(g), NEW k \in 1 .. Len(g), g[j].next # 0, g[j].next = g[k].next
      PROVE  j = k
  <2>1. j \in 1 .. Len(f) /\ k \in 1 .. Len(f)
    BY <1>1, <1>3, <1>6
  <2> QED BY <1>1, <1>6, <2>1, SMTT(60) DEF Apart
<1>7. ASSUME NEW a \in Headers, fj[a] # 0
      PROVE  /\ \A b \in Headers : fj[b] = fj[a] => b = a
             /\ \A k \in 1 .. Len(g) : g[k].next # fj[a]
  <2>1. ASSUME NEW b \in Headers, fj[b] = fj[a] PROVE b = a
    <3>1. CASE a # h /\ b # h
      BY <1>2, <1>7, <2>1, <3>1 DEF Apart
    <3>2. CASE a = h /\ b # h
      BY <1>0, <1>2, <2>1, <3>2
    <3>3. CASE a # h /\ b = h
      BY <1>0, <1>2, <2>1, <3>3
    <3> QED BY <3>1, <3>2, <3>3
  <2>2. ASSUME NEW k \in 1 .. Len(g) PROVE g[k].next # fj[a]
    <3>1. CASE k = Len(f) + 1
      BY <1>1, <1>7, <3>1
    <3>2. CASE k \in 1 .. Len(f) /\ a = h
      <4>1. g[k].next \in 0 .. Len(f)
        BY <1>1, <1>4, <3>2
      <4> QED BY <1>0, <1>2, <3>2, <4>1
    <3>3. CASE k \in 1 .. Len(f) /\ a # h
      BY <1>1, <1>2, <1>7, <3>3 DEF Apart
    <3> QED BY <1>3, <3>1, <3>2, <3>3
  <2> QED BY <2>1, <2>2
<1>8. ASSUME NEW k \in 1 .. Len(g) - 1 PROVE g[k].offset + g[k].len <= g[k + 1].offset
  <2>1. k \in 1 .. Len(f) /\ ((k \in 1 .. Len(f) - 1 /\ k + 1 \in 1 .. Len(f)) \/ k = Len(f))
    BY <1>0, <1>1
  <2>2. CASE k \in 1 .. Len(f) - 1 /\ k + 1 \in 1 .. Len(f)
    BY <1>1, <2>1, <2>2 DEF Apart
  <2>3. CASE k = Len(f)
    <3>1. g[k] = f[k] /\ g[k + 1].offset = Len(d)
      BY <1>1, <2>1, <2>3
    <3> QED BY <1>4, <2>1, <3>1
  <2> QED BY <2>1, <2>2, <2>3
<1>9. Apart(fj, g)
  BY <1>6, <1>7, <1>8 DEF Apart
<1> QED BY <1>2, <1>5, <1>9 DEF g, fj

(* The l-th fragment, the last of its chain, is linked to one of m characters more. *)
LEMMA LinkedMore ==
  ASSUME NEW fi, NEW f, NEW d, TableIn(fi, f, d), Apart(fi, f), Len(f) + 1 # NFrags,
         NEW l \in 1 .. Len(f), f[l].next = 0,
         NEW e \in Seq(Chars \cup {NUL}), Len(e) <= DataSize, NEW m \in Nat, Len(e) >= Len(d) + m
  PROVE  LET i == Append([f EXCEPT ![l].next = Len(f) + 1], [offset |-> Len(d), len |-> m, next |-> 0])
         IN TableIn(fi, i, e) /\ Apart(fi, i)
<1> DEFINE g == [f EXCEPT ![l].next = Len(f) + 1]
           i == Append(g, [offset |-> Len(d), len |-> m, next |-> 0])
<1>0. /\ Len(f) \in Nat /\ Len(d) \in Nat /\ Len(e) \in Nat /\ NFrags \in Nat /\ Len(f) < NFrags
      /\ f \in Seq(Fragments) /\ fi \in [Headers -> 0 .. Len(f)]
  BY Sizes DEF TableIn
<1>1. /\ g \in Seq(Fragments) /\ Len(g) = Len(f)
      /\ \A k \in 1 .. Len(f) :
              /\ g[k].offset = f[k].offset /\ g[k].len = f[k].len
              /\ g[k].next = IF k = l THEN Len(f) + 1 ELSE f[k].next
  BY <1>0, LinkedAt
<1> HIDE DEF g
<1>2. /\ i \in Seq(Fragments) /\ Len(i) = Len(g) + 1
      /\ \A k \in 1 .. Len(g) : i[k] = g[k]
      /\ i[Len(g) + 1] = [offset |-> Len(d), len |-> m, next |-> 0]
  BY <1>0, <1>1, MoreAt, ZenonT(60)
<1> HIDE DEF i
<1>3. /\ Len(i) = Len(f) + 1
      /\ \A k \in 1 .. Len(f) :
              /\ i[k].offset = f[k].offset /\ i[k].len = f[k].len
              /\ i[k].next = IF k = l THEN Len(f) + 1 ELSE f[k].next
      /\ i[Len(f) + 1].offset = Len(d) /\ i[Len(f) + 1].len = m /\ i[Len(f) + 1].next = 0
  BY <1>1, <1>2, SMTT(60)
<1>4. \A k \in 1 .. Len(i) : k \in 1 .. Len(f) \/ k = Len(f) + 1
  BY <1>0, <1>3
<1>5. \A k \in 1 .. Len(f) :
        /\ f[k].next \in 0 .. Len(f) /\ f[k].offset \in Nat /\ f[k].len \in Nat
        /\ f[k].next = 0 \/ f[k].next \in k + 1 .. Len(f)
        /\ f[k].offset + f[k].len <= Len(d)
  BY FragmentIs
<1>6. TableIn(fi, i, e)
  <2>1. ASSUME NEW k \in 1 .. Len(i) PROVE FragmentOK(i, k, Len(e))
    <3>1. CASE k \in 1 .. Len(f)
      <4>1. i[k].next = 0 \/ i[k].next \in k + 1 .. Len(i)
        <5>1. i[k].next = f[k].next \/ i[k].next = Len(f) + 1
          BY <1>3, <3>1
        <5>2. f[k].next = 0 \/ f[k].next \in k + 1 .. Len(f)
          BY <1>5, <3>1
        <5> QED BY <1>0, <1>3, <3>1, <5>1, <5>2, SMTT(60)
      <4>2. i[k].offset + i[k].len <= Len(e)
        <5>1. /\ f[k].offset \in Nat /\ f[k].len \in Nat /\ f[k].offset + f[k].len <= Len(d)
              /\ i[k].offset = f[k].offset /\ i[k].len = f[k].len
          BY <1>3, <1>5, <3>1
        <5> QED BY <1>0, <5>1, SMTT(60)
      <4> QED BY <4>1, <4>2 DEF FragmentOK
    <3>2. CASE k = Len(f) + 1
      BY <1>0, <1>3, <3>2 DEF FragmentOK
    <3> QED BY <1>4, <3>1, <3>2
  <2>2. Len(i) < NFrags
    <3>1. Len(i) = Len(f) + 1
      BY <1>3
    <3>2. Len(f) \in Nat /\ NFrags \in Nat /\ Len(f) < NFrags
      BY <1>0
    <3> QED BY <3>1, <3>2
  <2>3. fi \in [Headers -> 0 .. Len(i)]
    <3>1. 0 .. Len(f) \subseteq 0 .. Len(i)
      BY <1>0, <1>3
    <3> QED BY <1>0, <3>1
  <2> QED BY <1>2, <2>1, <2>2, <2>3 DEF TableIn
<1>7. ASSUME NEW j \in 1 .. Len(i), NEW k \in 1 .. Len(i), i[j].next # 0, i[j].next = i[k].next
      PROVE  j = k
  <2>1. j \in 1 .. Len(f) /\ k \in 1 .. Len(f)
    BY <1>3, <1>4, <1>7
  <2>2. f[j].next # Len(f) + 1 /\ f[k].next # Len(f) + 1
    <3>1. Len(f) \in Nat /\ f[j].next \in 0 .. Len(f) /\ f[k].next \in 0 .. Len(f)
      BY <1>0, <1>5, <2>1
    <3> QED BY <3>1, SMTT(60)
  <2>3. CASE j # l /\ k # l
    <3>1. i[j].next = f[j].next /\ i[k].next = f[k].next
      BY <1>3, <2>1, <2>3
    <3> QED BY <1>7, <2>1, <3>1 DEF Apart
  <2>4. CASE j = l /\ k # l
    <3>1. i[j].next = Len(f) + 1 /\ i[k].next = f[k].next
      BY <1>3, <2>1, <2>4
    <3> QED BY <1>7, <2>2, <3>1
  <2>5. CASE j # l /\ k = l
    <3>1. i[k].next = Len(f) + 1 /\ i[j].next = f[j].next
      BY <1>3, <2>1, <2>5
    <3> QED BY <1>7, <2>2, <3>1
  <2> QED BY <2>3, <2>4, <2>5
<1>8. ASSUME NEW a \in Headers, fi[a] # 0
      PROVE  /\ \A b \in Headers : fi[b] = fi[a] => b = a
             /\ \A k \in 1 .. Len(i) : i[k].next # fi[a]
  <2>1. /\ \A b \in Headers : fi[b] = fi[a] => b = a
        /\ \A k \in 1 .. Len(f) : f[k].next # fi[a]
        /\ fi[a] \in 0 .. Len(f)
    BY <1>0, <1>8 DEF Apart
  <2>2. ASSUME NEW k \in 1 .. Len(i) PROVE i[k].next # fi[a]
    <3>1. CASE k = Len(f) + 1
      BY <1>3, <1>8, <3>1
    <3>2. CASE k \in 1 .. Len(f)
      <4>1. i[k].next = f[k].next \/ i[k].next = Len(f) + 1
        BY <1>3, <3>2
      <4>2. fi[a] # Len(f) + 1
        BY <1>0, <2>1
      <4> QED BY <2>1, <3>2, <4>1, <4>2
    <3> QED BY <1>4, <3>1, <3>2
  <2> QED BY <2>1, <2>2
<1>9. ASSUME NEW k \in 1 .. Len(i) - 1 PROVE i[k].offset + i[k].len <= i[k + 1].offset
  <2>1. k \in 1 .. Len(f) /\ ((k \in 1 .. Len(f) - 1 /\ k + 1 \in 1 .. Len(f)) \/ k = Len(f))
    BY <1>0, <1>3
  <2>2. i[k].offset = f[k].offset /\ i[k].len = f[k].len
    BY <1>3, <2>1
  <2>3. CASE k \in 1 .. Len(f) - 1 /\ k + 1 \in 1 .. Len(f)
    <3>1. i[k + 1].offset = f[k + 1].offset
      BY <1>3, <2>3
    <3> QED BY <2>2, <2>3, <3>1 DEF Apart
  <2>4. CASE k = Len(f)
    <3>1. i[k + 1].offset = Len(d)
      BY <1>3, <2>4
    <3> QED BY <1>5, <2>1, <2>2, <3>1
  <2> QED BY <2>1, <2>3, <2>4
<1>10. Apart(fi, i)
  BY <1>7, <1>8, <1>9 DEF Apart
<1> QED BY <1>6, <1>10 DEF g, i

(* A character is stored and counted to the last fragment. *)
LEMMA Counted ==
  ASSUME NEW fi, NEW f, NEW d, TableIn(fi, f, d), Apart(fi, f), Len(f) # 0, Len(d) # DataSize,
         NEW c \in Chars \cup {NUL}
  PROVE  LET g == [f EXCEPT ![Len(f)].len = @ + 1]
         IN TableIn(fi, g, Append(d, c)) /\ Apart(fi, g)
<1> DEFINE g == [f EXCEPT ![Len(f)].len = @ + 1]
           e == Append(d, c)
<1>0. /\ Len(f) \in Nat /\ Len(d) \in Nat /\ NFrags \in Nat /\ Len(f) < NFrags /\ DataSize \in Nat
      /\ Len(d) <= DataSize /\ d \in Seq(Chars \cup {NUL}) /\ f \in Seq(Fragments)
      /\ fi \in [Headers -> 0 .. Len(f)]
  BY Sizes DEF TableIn
<1>1. e \in Seq(Chars \cup {NUL}) /\ Len(e) = Len(d) + 1
  BY <1>0
<1>2. /\ g \in Seq(Fragments) /\ Len(g) = Len(f)
      /\ \A k \in 1 .. Len(f) :
              /\ g[k].offset = f[k].offset /\ g[k].next = f[k].next
              /\ g[k].len = IF k = Len(f) THEN f[k].len + 1 ELSE f[k].len
  BY <1>0, CountedAt
<1> HIDE DEF e, g
<1>3. \A k \in 1 .. Len(f) :
        /\ f[k].next \in 0 .. Len(f) /\ f[k].offset \in Nat /\ f[k].len \in Nat
        /\ f[k].next = 0 \/ f[k].next \in k + 1 .. Len(f)
        /\ f[k].offset + f[k].len <= Len(d)
  BY FragmentIs
<1>4. ASSUME NEW k \in 1 .. Len(g) PROVE FragmentOK(g, k, Len(e))
  <2>0. k \in 1 .. Len(f)
    BY <1>2
  <2>1. /\ f[k].offset \in Nat /\ f[k].len \in Nat /\ f[k].offset + f[k].len <= Len(d)
        /\ f[k].next = 0 \/ f[k].next \in k + 1 .. Len(f)
    BY <1>3, <2>0
  <2>2. g[k].offset = f[k].offset /\ g[k].next = f[k].next
    BY <1>2, <2>0
  <2>3. g[k].offset + g[k].len <= Len(e)
    <3>1. CASE g[k].len = f[k].len
      BY <1>0, <1>1, <2>1, <2>2, <3>1, SMTT(60)
    <3>2. CASE g[k].len = f[k].len + 1
      BY <1>0, <1>1, <2>1, <2>2, <3>2, SMTT(60)
    <3> QED BY <1>2, <2>0, <3>1, <3>2
  <2> QED BY <1>2, <2>1, <2>2, <2>3 DEF FragmentOK
<1>5. Len(e) <= DataSize /\ Len(g) < NFrags /\ fi \in [Headers -> 0 .. Len(g)]
  BY <1>0, <1>1, <1>2
<1>6. TableIn(fi, g, e)
  BY <1>1, <1>2, <1>4, <1>5 DEF TableIn
<1>7. ASSUME NEW k \in 1 .. Len(g) - 1 PROVE g[k].offset + g[k].len <= g[k + 1].offset
  <2>1. k \in 1 .. Len(f) /\ k \in 1 .. Len(f) - 1 /\ k + 1 \in 1 .. Len(f) /\ k # Len(f)
    BY <1>0, <1>2
  <2>2. g[k].offset = f[k].offset /\ g[k].len = f[k].len /\ g[k + 1].offset = f[k + 1].offset
    BY <1>2, <2>1
  <2> QED BY <2>1, <2>2 DEF Apart
<1>8. \A k \in 1 .. Len(g) : k \in 1 .. Len(f) /\ g[k].next = f[k].next
  BY <1>2
<1>9. Apart(fi, g)
  BY <1>2, <1>7, <1>8 DEF Apart
<1> QED BY <1>6, <1>9 DEF g, e

(* A character that belongs to no fragment: the end of a value. *)
LEMMA Ended ==
  ASSUME NEW fi, NEW f, NEW d, TableIn(fi, f, d), NEW e \in Seq(Chars \cup {NUL}),
         Len(e) <= DataSize, Len(e) >= Len(d)
  PROVE  TableIn(fi, f, e)
<1>1. ASSUME NEW k \in 1 .. Len(f) PROVE FragmentOK(f, k, Len(e))
  <2>1. FragmentOK(f, k, Len(d)) /\ f[k] \in Fragments
    BY DEF TableIn
  <2>2. f[k].offset \in Nat /\ f[k].len \in Nat /\ f[k].offset + f[k].len <= Len(d)
    BY <2>1 DEF Fragments, FragmentOK
  <2>3. Len(d) \in Nat /\ Len(e) \in Nat
    BY DEF TableIn
  <2>4. f[k].offset + f[k].len <= Len(e)
    BY <2>2, <2>3
  <2> QED BY <2>1, <2>4 DEF FragmentOK
<1> QED BY <1>1 DEF TableIn

---------------------------------------------------------------------------
(* The chains of the table. *)

(* Every link leads upwards. *)
Upwards ==
  /\ frags \in Seq(Fragments) /\ Len(frags) < NFrags
  /\ \A k \in 1 .. Len(frags) : frags[k].next = 0 \/ frags[k].next \in k + 1 .. Len(frags)

(* What the recursion of Chain puts together at k, from the values f has at later places. *)
LinkAt(f, k) ==
  IF k = 0 \/ k > Len(frags) THEN <<>> ELSE <<k>> \o
    (IF frags[k].next > k THEN f[frags[k].next] ELSE <<>>)

Solves(f, m) == f \in [m .. NFrags -> Seq(Nat)] /\ \A k \in m .. NFrags : f[k] = LinkAt(f, k)

(* A chain with a link put in front. *)
LEMMA OneLink ==
  ASSUME NEW k \in Nat, NEW t \in Seq(Nat)
  PROVE  <<k>> \o t \in Seq(Nat) /\ <<k>> \o t # <<>>
         /\ Last(<<k>> \o t) = IF t = <<>> THEN k ELSE Last(t)
<1> DEFINE s == <<k>>
           u == s \o t
<1>1. s \in Seq(Nat) /\ Len(s) = 1 /\ s[1] = k
  OBVIOUS
<1>2. t \in Seq(Nat) /\ Len(t) \in Nat /\ (t = <<>> <=> Len(t) = 0)
  OBVIOUS
<1> HIDE DEF s
<1>3. /\ u \in Seq(Nat) /\ Len(u) = Len(s) + Len(t)
      /\ \A i \in 1 .. Len(s) : u[i] = s[i]
      /\ \A i \in Len(s) + 1 .. Len(s) + Len(t) : u[i] = t[i - Len(s)]
  BY <1>1, <1>2, ConcatAt, ZenonT(60)
<1> HIDE DEF u
<1>4. Len(u) = 1 + Len(t) /\ Len(u) \in 1 .. Len(u)
  BY <1>1, <1>2, <1>3
<1>5. u # <<>>
  BY <1>4, <1>2
<1>6. u[Len(u)] = IF t = <<>> THEN k ELSE t[Len(t)]
  <2>1. CASE Len(t) = 0
    BY <1>1, <1>2, <1>3, <1>4, <2>1
  <2>2. CASE Len(t) # 0
    <3>1. Len(u) - 1 = Len(t) /\ ~(Len(u) <= 1)
      BY <1>2, <1>4, <2>2
    <3> QED BY <1>1, <1>2, <1>3, <1>4, <2>2, <3>1, SMTT(60)
  <2> QED BY <2>1, <2>2
<1> QED BY <1>3, <1>5, <1>6 DEF u, s, Last

LEMMA LinkType ==
  ASSUME Upwards, NEW m \in Nat, NEW k \in Nat, m <= k + 1, NEW f \in [m .. NFrags -> Seq(Nat)]
  PROVE  LinkAt(f, k) \in Seq(Nat)
<1>0. Len(frags) \in Nat /\ NFrags \in Nat /\ Len(frags) < NFrags /\ <<>> \in Seq(Nat)
  BY Sizes DEF Upwards
<1>1. CASE k = 0 \/ k > Len(frags)
  BY <1>0, <1>1 DEF LinkAt
<1>2. CASE ~(k = 0 \/ k > Len(frags)) /\ frags[k].next > k
  <2>1. k \in 1 .. Len(frags)
    BY <1>0, <1>2
  <2>2. frags[k].next \in k + 1 .. Len(frags)
    BY <1>2, <2>1 DEF Upwards
  <2>3. frags[k].next \in m .. NFrags
    BY <1>0, <2>1, <2>2
  <2>4. f[frags[k].next] \in Seq(Nat)
    BY <2>3
  <2>5. LinkAt(f, k) = <<k>> \o f[frags[k].next]
    BY <1>2 DEF LinkAt
  <2> QED BY <2>4, <2>5, OneLink
<1>3. CASE ~(k = 0 \/ k > Len(frags)) /\ ~(frags[k].next > k)
  <2>1. LinkAt(f, k) = <<k>> \o <<>>
    BY <1>3 DEF LinkAt
  <2> QED BY <1>0, <2>1, OneLink
<1> QED BY <1>1, <1>2, <1>3

(* The value at k depends on the later places only. *)
LEMMA LinkSame ==
  ASSUME Upwards, NEW k \in Nat, NEW f, NEW g, \A i \in k + 1 .. NFrags : f[i] = g[i]
  PROVE  LinkAt(f, k) = LinkAt(g, k)
<1>0. Len(frags) \in Nat /\ NFrags \in Nat /\ Len(frags) < NFrags
  BY Sizes DEF Upwards
<1>1. CASE ~(k = 0 \/ k > Len(frags)) /\ frags[k].next > k
  <2>1. k \in 1 .. Len(frags)
    BY <1>0, <1>1
  <2>2. frags[k].next \in k + 1 .. Len(frags)
    BY <1>1, <2>1 DEF Upwards
  <2>3. frags[k].next \in k + 1 .. NFrags
    BY <1>0, <2>1, <2>2
  <2> QED BY <1>1, <2>3 DEF LinkAt
<1> QED BY <1>1 DEF LinkAt

(* A solution from m + 1 on is one from m on with the value at m, and so there is one. *)
LEMMA SolvesMore ==
  ASSUME Upwards, NEW m \in 0 .. NFrags, NEW f, Solves(f, m + 1)
  PROVE  \E g : Solves(g, m)
<1> DEFINE g == [k \in m .. NFrags |-> IF k = m THEN LinkAt(f, m) ELSE f[k]]
<1>0. NFrags \in Nat /\ m \in Nat /\ m <= NFrags /\ m + 1 \in Nat
  BY Sizes
<1>1. f \in [m + 1 .. NFrags -> Seq(Nat)] /\ \A k \in m + 1 .. NFrags : f[k] = LinkAt(f, k)
  BY DEF Solves
<1>2. LinkAt(f, m) \in Seq(Nat)
  BY <1>0, <1>1, LinkType
<1>3. g[m] = LinkAt(f, m) /\ \A k \in m + 1 .. NFrags : g[k] = f[k]
  BY <1>0
<1>4. g \in [m .. NFrags -> Seq(Nat)]
  <2>1. ASSUME NEW k \in m .. NFrags PROVE (IF k = m THEN LinkAt(f, m) ELSE f[k]) \in Seq(Nat)
    <3>1. k = m \/ k \in m + 1 .. NFrags
      BY <1>0
    <3> QED BY <1>1, <1>2, <3>1
  <2> QED BY <2>1
<1> HIDE DEF g
<1>5. ASSUME NEW k \in m .. NFrags PROVE g[k] = LinkAt(g, k)
  <2>1. k \in Nat /\ \A i \in k + 1 .. NFrags : i \in m + 1 .. NFrags
    BY <1>0
  <2>2. \A i \in k + 1 .. NFrags : f[i] = g[i]
    BY <1>3, <2>1
  <2>3. LinkAt(f, k) = LinkAt(g, k)
    BY <2>1, <2>2, LinkSame
  <2>4. g[k] = LinkAt(f, k)
    <3>1. k = m \/ k \in m + 1 .. NFrags
      BY <1>0
    <3> QED BY <1>1, <1>3, <3>1
  <2> QED BY <2>3, <2>4
<1> QED BY <1>4, <1>5 DEF Solves

LEMMA SolvesAll ==
  ASSUME Upwards
  PROVE  \E g : Solves(g, 0)
<1>0. NFrags \in Nat
  BY HeadersAssumption
<1> DEFINE C == {j \in 0 .. NFrags + 1 : ~ \E g : Solves(g, (NFrags + 1) - j)}
<1> SUFFICES ASSUME C # {} PROVE FALSE
  <2>1. NFrags + 1 \in 0 .. NFrags + 1 /\ (NFrags + 1) - (NFrags + 1) = 0
    BY <1>0
  <2> QED BY <2>1
<1>1. PICK x \in C : \A y \in C : x <= y
  <2>1. C \subseteq Nat
    BY <1>0
  <2> HIDE DEF C
  <2> QED BY <2>1, SmallestIn
<1>2. CASE x = 0
  <2>1. Solves([k \in NFrags + 1 .. NFrags |-> <<>>], NFrags + 1)
    BY <1>0 DEF Solves
  <2>2. (NFrags + 1) - 0 = NFrags + 1
    BY <1>0
  <2> QED BY <1>2, <2>1, <2>2
<1>3. CASE x # 0
  <2> DEFINE m == (NFrags + 1) - x
  <2>1. x - 1 \in 0 .. NFrags + 1 /\ ~(x <= x - 1) /\ m \in 0 .. NFrags /\ (NFrags + 1) - (x - 1) = m + 1
    BY <1>0, <1>3
  <2>2. x - 1 \notin C
    BY <1>1, <2>1
  <2>3. PICK f : Solves(f, m + 1)
    BY <2>1, <2>2
  <2>4. \E g : Solves(g, m)
    BY <2>1, <2>3, SolvesMore
  <2> QED BY <2>4
<1> QED BY <1>2, <1>3

(* Chain is defined: its recursion ends, for it goes upwards. *)
LEMMA ChainIs ==
  ASSUME Upwards
  PROVE  \A n \in 0 .. NFrags : Chain(n) = LinkAt([k \in 0 .. NFrags |-> Chain(k)], n)
<1> DEFINE c == CHOOSE f : f = [k \in 0 .. NFrags |->
                  IF k = 0 \/ k > Len(frags) THEN <<>> ELSE <<k>> \o
                    (IF frags[k].next > k THEN f[frags[k].next] ELSE <<>>)]
<1>1. PICK g : Solves(g, 0)
  BY SolvesAll
<1>2. g = [k \in 0 .. NFrags |-> LinkAt(g, k)]
  BY <1>1, SMTT(60) DEF Solves
<1>3. c = [k \in 0 .. NFrags |->
             IF k = 0 \/ k > Len(frags) THEN <<>> ELSE <<k>> \o
               (IF frags[k].next > k THEN c[frags[k].next] ELSE <<>>)]
  BY <1>2 DEF LinkAt
<1>4. \A n : Chain(n) = c[n]
  BY DEF Chain
<1> HIDE DEF c
<1>5. \A n \in 0 .. NFrags : c[n] = LinkAt(c, n)
  BY <1>3 DEF LinkAt
<1>6. c = [k \in 0 .. NFrags |-> Chain(k)]
  BY <1>3, <1>4
<1> QED BY <1>4, <1>5, <1>6

(* A chain that has begun ends at a fragment without a link. *)
LEMMA ChainEnds ==
  ASSUME Upwards, NEW n \in 1 .. Len(frags)
  PROVE  Last(Chain(n)) \in 1 .. Len(frags) /\ frags[Last(Chain(n))].next = 0
<1> DEFINE L == Len(frags)
           f == [k \in 0 .. NFrags |-> Chain(k)]
           Ends(s) == s \in Seq(Nat) /\ s # <<>> /\ Last(s) \in 1 .. L /\ frags[Last(s)].next = 0
           C == {j \in 0 .. L : L - j \in 1 .. L /\ ~Ends(Chain(L - j))}
<1>0. L \in Nat /\ NFrags \in Nat /\ L < NFrags /\ frags \in Seq(Fragments)
  BY Sizes DEF Upwards
<1> SUFFICES ASSUME C # {} PROVE FALSE
  <2>1. L - n \in 0 .. L /\ L - (L - n) = n
    BY <1>0
  <2> QED BY <2>1
<1>1. PICK x \in C : \A y \in C : x <= y
  <2>1. C \subseteq Nat
    BY <1>0
  <2> HIDE DEF C
  <2> QED BY <2>1, SmallestIn
<1> DEFINE k == L - x
<1>2. k \in 1 .. L /\ ~Ends(Chain(k)) /\ x = L - k /\ k \in 0 .. NFrags
  BY <1>0
<1>3. \A i \in k + 1 .. L : Ends(Chain(i))
  <2> SUFFICES ASSUME NEW i \in k + 1 .. L PROVE Ends(Chain(i))
    OBVIOUS
  <2>1. L - i \in 0 .. L /\ L - (L - i) = i /\ ~(x <= L - i) /\ i \in 1 .. L
    BY <1>0, <1>2, SMTT(60)
  <2>2. L - i \notin C
    BY <1>1, <2>1
  <2> HIDE DEF Ends
  <2> QED BY <2>1, <2>2
<1>4. Chain(k) = LinkAt(f, k)
  BY <1>2, ChainIs
<1> HIDE DEF k, C
<1>5. CASE frags[k].next > k
  <2> DEFINE i == frags[k].next
  <2>1. i \in k + 1 .. L
    BY <1>2, <1>5 DEF Upwards
  <2>2. i \in 0 .. NFrags
    BY <1>0, <1>2, <2>1, SMTT(60)
  <2>3. Chain(k) = <<k>> \o Chain(i)
    BY <1>0, <1>2, <1>4, <1>5, <2>2, SMTT(60) DEF LinkAt
  <2> HIDE DEF i
  <2>4. Ends(Chain(i))
    BY <1>3, <2>1
  <2>5. k \in Nat /\ Chain(i) \in Seq(Nat) /\ Chain(i) # <<>>
    BY <1>2, <2>4
  <2>6. Chain(k) \in Seq(Nat) /\ Chain(k) # <<>> /\ Last(Chain(k)) = Last(Chain(i))
    BY <2>3, <2>5, OneLink
  <2> QED BY <1>2, <2>4, <2>6
<1>6. CASE ~(frags[k].next > k)
  <2>1. frags[k].next = 0
    BY <1>0, <1>2, <1>6 DEF Upwards
  <2>2. Chain(k) = <<k>> \o <<>>
    <3>1. ~(k = 0 \/ k > Len(frags))
      BY <1>0, <1>2
    <3> QED BY <1>4, <1>6, <3>1, Zenon DEF LinkAt
  <2>3. k \in Nat /\ <<>> \in Seq(Nat)
    BY <1>2
  <2>4. Chain(k) \in Seq(Nat) /\ Chain(k) # <<>> /\ Last(Chain(k)) = k
    BY <2>2, <2>3, OneLink
  <2> QED BY <1>2, <2>1, <2>4
<1> QED BY <1>5, <1>6

---------------------------------------------------------------------------
(* The steps. *)

(* What a header name starts stays in the table, and gives the header a fragment *)
(* unless the connection is dropped. *)
LEMMA FragmentStarted ==
  ASSUME TableIn(frag_index, frags, data), Apart(frag_index, frags), NEW h \in Headers,
         ~dropped, dropped \in BOOLEAN, StartFragment(h)
  PROVE  /\ TableIn(frag_index', frags', data') /\ Apart(frag_index', frags') /\ dropped' \in BOOLEAN
         /\ ~dropped' => frag_index'[h] # 0
<1>0. /\ frags \in Seq(Fragments) /\ data \in Seq(Chars \cup {NUL}) /\ Len(frags) \in Nat /\ Len(data) \in Nat
      /\ Len(data) <= DataSize /\ DataSize \in Nat /\ frag_index \in [Headers -> 0 .. Len(frags)]
  BY Sizes DEF TableIn
<1>5. ASSUME frag_index[h] # 0
      PROVE  /\ Last(Chain(frag_index[h])) \in 1 .. Len(frags)
             /\ frags[Last(Chain(frag_index[h]))].next = 0
  <2>1. Upwards
    BY DEF TableIn, FragmentOK, Upwards
  <2>2. frag_index[h] \in 1 .. Len(frags)
    BY <1>0, <1>5
  <2> QED BY <2>1, <2>2, ChainEnds
<1>1. CASE Len(frags) + 1 = NFrags
  <2>1. dropped' = TRUE /\ UNCHANGED <<frag_index, frags, data>>
    BY <1>1 DEF StartFragment, Drop, tableVars, next_frag_index
  <2> QED BY <2>1
<1>2. CASE Len(frags) + 1 # NFrags /\ frag_index[h] = 0
  <2> DEFINE r == [offset |-> Len(data), len |-> 0, next |-> 0]
  <2>1. /\ frags' = Append(frags, r) /\ frag_index' = [frag_index EXCEPT ![h] = Len(frags) + 1]
        /\ data' = data /\ dropped' = dropped
    BY <1>2 DEF StartFragment, next_frag_index, pos
  <2>2. 0 \in Nat /\ Len(data) >= Len(data) + 0
    BY <1>0
  <2>3. /\ TableIn(frag_index', frags', data') /\ Apart(frag_index', frags')
        /\ frag_index'[h] = Len(frags) + 1
    BY <1>0, <1>2, <2>1, <2>2, OneMore
  <2> QED BY <1>0, <2>1, <2>3
<1>3. CASE Len(frags) + 1 # NFrags /\ frag_index[h] # 0 /\ Len(data) # DataSize
  <2> DEFINE last == Last(Chain(frag_index[h]))
             r == [offset |-> Len(data), len |-> 1, next |-> 0]
  <2>1. /\ frags' = Append([frags EXCEPT ![last].next = Len(frags) + 1], r)
        /\ data' = Append(data, SP) /\ UNCHANGED <<frag_index, dropped>>
    BY <1>3 DEF StartFragment, next_frag_index, pos, Space
  <2>4. last \in 1 .. Len(frags) /\ frags[last].next = 0
    BY <1>3, <1>5
  <2> HIDE DEF last
  <2>2. data' \in Seq(Chars \cup {NUL}) /\ Len(data') = Len(data) + 1 /\ Len(data') <= DataSize
        /\ Len(data') >= Len(data) + 1
    BY <1>0, <1>3, <2>1 DEF Chars
  <2>3. TableIn(frag_index, frags', data') /\ Apart(frag_index, frags')
    <3>1. 1 \in Nat
      OBVIOUS
    <3> QED BY <1>3, <2>1, <2>2, <2>4, <3>1, LinkedMore
  <2> QED BY <1>3, <2>1, <2>3
<1>4. CASE Len(frags) + 1 # NFrags /\ frag_index[h] # 0 /\ Len(data) = DataSize
  <2> DEFINE last == Last(Chain(frag_index[h]))
             r == [offset |-> Len(data), len |-> 0, next |-> 0]
  <2>1. /\ frags' = Append([frags EXCEPT ![last].next = Len(frags) + 1], r)
        /\ data' = data /\ UNCHANGED frag_index /\ dropped' = TRUE
    BY <1>4 DEF StartFragment, next_frag_index, pos, Space, Drop
  <2>4. last \in 1 .. Len(frags) /\ frags[last].next = 0
    BY <1>4, <1>5
  <2> HIDE DEF last
  <2>3. TableIn(frag_index, frags', data') /\ Apart(frag_index, frags')
    <3>1. 0 \in Nat /\ Len(data) >= Len(data) + 0
      BY <1>0
    <3> QED BY <1>0, <1>4, <2>1, <2>4, <3>1, LinkedMore
  <2> QED BY <2>1, <2>3
<1> QED BY <1>1, <1>2, <1>3, <1>4

(* A sequence cut before its first element. *)
LEMMA NoLinks ==
  ASSUME NEW T, NEW s \in Seq(T)
  PROVE  SubSeq(s, 1, 0) \in Seq(T) /\ Len(SubSeq(s, 1, 0)) = 0
OBVIOUS

LEMMA ConcatLen ==
  ASSUME NEW T, NEW s \in Seq(T), NEW t \in Seq(T)
  PROVE  s \o t \in Seq(T) /\ Len(s \o t) = Len(s) + Len(t)
OBVIOUS

LEMMA CreateStep ==
  ASSUME HeadersInv, NEW h \in ClientTokens, Create(h, <<"x">>)
  PROVE  HeadersInv'
<1>0. /\ TableIn(frag_index, frags, data) /\ Apart(frag_index, frags)
      /\ ParserOK(parser_state, frag_index, dropped)
  BY InvParts
<1>1. /\ frags \in Seq(Fragments) /\ data \in Seq(Chars \cup {NUL}) /\ Len(frags) \in Nat /\ Len(data) \in Nat
      /\ Len(data) <= DataSize /\ DataSize \in Nat /\ frag_index \in [Headers -> 0 .. Len(frags)]
      /\ h \in Headers /\ dropped \in BOOLEAN /\ ~dropped
  BY <1>0, Sizes, ClientTokensKnown DEF TableIn, ParserOK, Create
<1>2. parser_state' = parser_state
  BY DEF Create
<1>3. CASE Len(frags) + 1 = NFrags
  <2>1. dropped' = TRUE /\ UNCHANGED <<frag_index, frags, data>>
    BY <1>3 DEF Create, tableVars, next_frag_index
  <2> QED BY <1>0, <1>2, <2>1, InvPartsNext DEF ParserOK
<1>4. CASE Len(frags) + 1 # NFrags
  <2> DEFINE s == <<"x">>
             room == DataSize - Len(data)
             part == IF Len(s) <= room THEN s ELSE SubSeq(s, 1, room)
             e == data \o (IF Len(s) < room THEN Append(s, NUL) ELSE part)
             r == [offset |-> Len(data), len |-> Len(part), next |-> 0]
  <2>1. /\ frag_index' = [frag_index EXCEPT ![h] = Len(frags) + 1]
        /\ frags' = Append(frags, r) /\ data' = e /\ dropped' = (Len(s) >= room)
    BY <1>4 DEF Create, next_frag_index, pos
  <2>2. /\ e \in Seq(Chars \cup {NUL}) /\ Len(e) <= DataSize
        /\ Len(part) \in Nat /\ Len(e) >= Len(data) + Len(part)
    <3>1. s \in Seq(Chars \cup {NUL}) /\ Len(s) = 1
      BY DEF Chars
    <3>2. CASE room > 1
      <4>1. part = s /\ e = data \o <<"x", NUL>>
        BY <1>1, <3>1, <3>2, SMTT(60)
      <4>2. <<"x", NUL>> \in Seq(Chars \cup {NUL}) /\ Len(<<"x", NUL>>) = 2
        BY DEF Chars
      <4> QED BY <1>1, <3>1, <3>2, <4>1, <4>2
    <3>3. CASE room = 1
      <4>1. part = s /\ e = data \o s
        BY <1>1, <3>1, <3>3
      <4> HIDE DEF s
      <4>2. e \in Seq(Chars \cup {NUL}) /\ Len(e) = Len(data) + Len(s)
        BY <1>1, <3>1, <4>1, ConcatLen, ZenonT(60)
      <4> HIDE DEF e
      <4> QED BY <1>1, <3>1, <3>3, <4>1, <4>2
    <3>4. CASE room = 0
      <4>1. part = SubSeq(s, 1, 0) /\ e = data \o part
        BY <1>1, <3>1, <3>4
      <4> HIDE DEF s
      <4>2. part \in Seq(Chars \cup {NUL}) /\ Len(part) = 0
        BY <3>1, <4>1, NoLinks
      <4> HIDE DEF part
      <4>3. e \in Seq(Chars \cup {NUL}) /\ Len(e) = Len(data) + Len(part)
        BY <1>1, <4>1, <4>2, ConcatLen
      <4> HIDE DEF e
      <4> QED BY <1>1, <4>2, <4>3
    <3>5. room \in Nat
      BY <1>1
    <3> QED BY <3>2, <3>3, <3>4, <3>5
  <2>3. dropped' \in BOOLEAN
    BY <2>1
  <2> HIDE DEF s, room, part, e
  <2>4. frag_index[h] = 0
    BY DEF Create
  <2>6. /\ TableIn(frag_index', frags', data') /\ Apart(frag_index', frags')
        /\ frag_index'[h] = Len(frags) + 1
    BY <1>0, <1>1, <1>4, <2>1, <2>2, <2>4, OneMore
  <2> HIDE DEF r
  <2>7. ParserOK(parser_state, frag_index', dropped')
    BY <1>0, <1>1, <2>1, <2>3 DEF ParserOK
  <2> QED BY <1>2, <2>6, <2>7, InvPartsNext
<1> QED BY <1>3, <1>4

LEMMA StoreStep ==
  ASSUME HeadersInv, NEW c \in Chars, Store(c)
  PROVE  HeadersInv'
<1>0. /\ TableIn(frag_index, frags, data) /\ Apart(frag_index, frags)
      /\ ParserOK(parser_state, frag_index, dropped)
  BY InvParts
<1>1. /\ frags \in Seq(Fragments) /\ data \in Seq(Chars \cup {NUL}) /\ Len(frags) \in Nat /\ Len(data) \in Nat
      /\ Len(data) <= DataSize /\ DataSize \in Nat /\ frag_index \in [Headers -> 0 .. Len(frags)]
  BY <1>0, Sizes DEF TableIn
<1>2. dropped = FALSE /\ parser_state \in Headers /\ frag_index[parser_state] # 0
  BY <1>0 DEF ParserOK, Store, Parsed, InValue
<1>3. Len(frags) # 0
  BY <1>1, <1>2
<1>4. Stored(c) \in Chars \cup {NUL}
  BY DEF Stored
<1>5. parser_state' \in {parser_state} \cup States /\ frag_index' = frag_index
  BY DEF Store, StoreState, States
<1>6. CASE Len(data) = DataSize
  <2>1. dropped' = TRUE /\ UNCHANGED <<frags, data>>
    BY <1>6 DEF Store, Space, pos, Drop
  <2> QED BY <1>0, <1>2, <1>5, <2>1, InvPartsNext DEF ParserOK
<1>7. CASE Len(data) # DataSize
  <2>1. /\ data' = Append(data, Stored(c)) /\ dropped' = dropped
        /\ frags' = IF Stored(c) = NUL THEN frags ELSE [frags EXCEPT ![Len(frags)].len = @ + 1]
    BY <1>7 DEF Store, Space, pos, next_frag_index
  <2>2. data' \in Seq(Chars \cup {NUL}) /\ Len(data') <= DataSize /\ Len(data') >= Len(data)
    BY <1>1, <1>4, <1>7, <2>1
  <2>3. TableIn(frag_index, frags', data') /\ Apart(frag_index, frags')
    <3>1. CASE Stored(c) = NUL
      BY <1>0, <2>1, <2>2, <3>1, Ended
    <3>2. CASE Stored(c) # NUL
      <4>1. frags' = [frags EXCEPT ![Len(frags)].len = @ + 1]
        BY <2>1, <3>2
      <4>2. /\ TableIn(frag_index, [frags EXCEPT ![Len(frags)].len = @ + 1], Append(data, Stored(c)))
            /\ Apart(frag_index, [frags EXCEPT ![Len(frags)].len = @ + 1])
        BY <1>0, <1>3, <1>4, <1>7, Counted
      <4> QED BY <2>1, <4>1, <4>2
    <3> QED BY <3>1, <3>2
  <2>4. ParserOK(parser_state', frag_index, dropped)
    BY <1>2, <1>5, HeadersAssumption DEF ParserOK, States
  <2> QED BY <1>5, <2>1, <2>3, <2>4, InvPartsNext
<1> QED BY <1>6, <1>7

LEMMA KnownStep ==
  ASSUME HeadersInv, NEW name, Known(name)
  PROVE  HeadersInv'
<1>0. /\ TableIn(frag_index, frags, data) /\ Apart(frag_index, frags)
      /\ ParserOK(parser_state, frag_index, dropped)
  BY InvParts
<1>1. ~dropped /\ dropped \in BOOLEAN
  BY <1>0 DEF ParserOK, Known, Parsed
<1>2. CASE name = "GET_URI" /\ frag_index["GET_URI"] # 0
  <2>1. dropped' = TRUE /\ UNCHANGED <<parser_state, frag_index, frags, data>>
    BY <1>2 DEF Known, Drop, tableVars
  <2> QED BY <1>0, <2>1, InvPartsNext DEF ParserOK
<1>3. CASE ~(name = "GET_URI" /\ frag_index["GET_URI"] # 0)
  <2>1. parser_state' = TokenOf(name) /\ StartFragment(TokenOf(name))
    BY <1>3 DEF Known
  <2>2. TokenOf(name) \in Headers
    BY HeadersAssumption DEF Known, Names, TokenOf
  <2>3. /\ TableIn(frag_index', frags', data') /\ Apart(frag_index', frags') /\ dropped' \in BOOLEAN
        /\ ~dropped' => frag_index'[TokenOf(name)] # 0
    BY <1>0, <1>1, <2>1, <2>2, FragmentStarted
  <2>4. ParserOK(parser_state', frag_index', dropped')
    BY <2>1, <2>2, <2>3 DEF ParserOK
  <2> QED BY <2>3, <2>4, InvPartsNext
<1> QED BY <1>2, <1>3

(* The steps that leave the table and the value being parsed alone. *)
LEMMA QuietStep ==
  ASSUME HeadersInv, UNCHANGED tableVars, dropped' \in BOOLEAN,
         \/ parser_state' \in States
         \/ parser_state' = parser_state /\ (dropped' = dropped \/ dropped')
  PROVE  HeadersInv'
<1>0. /\ TableIn(frag_index, frags, data) /\ Apart(frag_index, frags)
      /\ ParserOK(parser_state, frag_index, dropped)
  BY InvParts
<1>1. UNCHANGED <<frag_index, frags, data>>
  BY DEF tableVars
<1>2. ParserOK(parser_state', frag_index, dropped')
  BY <1>0, HeadersAssumption DEF ParserOK, States
<1>3. /\ TableIn(frag_index', frags', data') /\ Apart(frag_index', frags')
      /\ ParserOK(parser_state', frag_index', dropped')
  BY <1>0, <1>1, <1>2
<1> QED BY <1>3, InvPartsNext

LEMMA HeadersInit == Init => HeadersInv
<1> SUFFICES ASSUME Init PROVE HeadersInv
  OBVIOUS
<1>1. frags = <<>> /\ data = <<>> /\ frag_index = [h \in Headers |-> 0]
  BY DEF Init
<1>2. TableIn(frag_index, frags, data) /\ Apart(frag_index, frags)
  BY <1>1, Sizes DEF TableIn, Apart
<1>3. ParserOK(parser_state, frag_index, dropped)
  BY HeadersAssumption DEF Init, ParserOK, States
<1> QED BY <1>2, <1>3, InvParts

LEMMA HeadersStep == HeadersInv /\ [Next]_vars => HeadersInv'
<1> SUFFICES ASSUME HeadersInv, [Next]_vars PROVE HeadersInv'
  OBVIOUS
<1>0. dropped \in BOOLEAN
  BY DEF HeadersInv, TableTypes
<1>1. CASE \E h \in ClientTokens : Create(h, <<"x">>)
  BY <1>1, CreateStep
<1>2. CASE \E c \in Chars : Store(c)
  BY <1>2, StoreStep
<1>3. CASE \E c \in Chars : Known(c)
  BY <1>3, KnownStep
<1>4. CASE SendEnd \/ SendMore \/ \E name \in Names, value \in Values : SendLine(name, value)
  <2>1. UNCHANGED tableVars /\ dropped' = dropped /\ parser_state' = parser_state
    BY <1>4 DEF SendEnd, SendMore, SendLine
  <2> QED BY <1>0, <2>1, QuietStep
<1>5. CASE Swallow \/ NameCR \/ \E c \in Chars : Ignore(c)
  <2>1. UNCHANGED tableVars /\ dropped' = dropped /\ parser_state' = parser_state
    BY <1>5 DEF Swallow, NameCR, Ignore
  <2> QED BY <1>0, <2>1, QuietStep
<1>6. CASE Complete \/ \E c \in Chars : Skip(c)
  <2>1. UNCHANGED tableVars /\ dropped' = dropped /\ parser_state' \in States
    BY <1>6 DEF Complete, Skip, States
  <2> QED BY <1>0, <2>1, QuietStep
<1>7. CASE UnknownName
  <2>1. UNCHANGED tableVars
        /\ \/ parser_state' \in States /\ dropped' = dropped
           \/ parser_state' = parser_state /\ dropped' = TRUE
    BY <1>7 DEF UnknownName, Drop, States
  <2> QED BY <1>0, <2>1, QuietStep
<1>8. CASE UNCHANGED vars
  <2>1. UNCHANGED tableVars /\ dropped' = dropped /\ parser_state' = parser_state
    BY <1>8 DEF vars, tableVars
  <2> QED BY <1>0, <2>1, QuietStep
<1> QED BY <1>1, <1>2, <1>3, <1>4, <1>5, <1>6, <1>7, <1>8 DEF Next, Parse

(* libwebsocket_parse and lws_hdr_simple_create never leave ah->frags and ah->data,  *)
(* a header being parsed has a fragment, and every link leads upwards, so that the    *)
(* loops over a chain end, for every size of the table and every input.               *)
THEOREM HeaderTableSound == Spec => []TableSound
<1>1. HeadersInv => TableSound
  BY DEF HeadersInv
<1> QED BY <1>1, HeadersInit, HeadersStep, PTL DEF Spec

---------------------------------------------------------------------------
(* FlattenSeq *)

(* What the recursion of FlattenSeq puts together at i. *)
FlatAt(s, g, i) == IF i = 1 THEN s[i] ELSE g[i - 1] \o s[i]

Flattens(s, n, g) == \A i \in 1 .. n : g[i] = FlatAt(s, g, i)

LEMMA FlattensMore ==
  ASSUME NEW S, NEW s \in Seq(Seq(S)), NEW n \in Nat, n < Len(s),
         NEW g \in [1 .. n -> Seq(S)], Flattens(s, n, g)
  PROVE  \E h \in [1 .. n + 1 -> Seq(S)] : Flattens(s, n + 1, h)
<1> DEFINE h == [i \in 1 .. n + 1 |-> IF i = n + 1 THEN FlatAt(s, g, n + 1) ELSE g[i]]
<1>1. \A i \in 1 .. n : h[i] = g[i]
  OBVIOUS
<1>2. h[n + 1] = FlatAt(s, g, n + 1)
  OBVIOUS
<1>3. FlatAt(s, g, n + 1) \in Seq(S)
  <2>1. n + 1 \in 1 .. Len(s) /\ s[n + 1] \in Seq(S)
    OBVIOUS
  <2>2. CASE n = 0
    BY <2>1, <2>2 DEF FlatAt
  <2>3. CASE n # 0
    <3>1. n \in 1 .. n /\ (n + 1) - 1 = n /\ n + 1 # 1 /\ g[n] \in Seq(S)
      BY <2>3
    <3>2. g[n] \o s[n + 1] \in Seq(S)
      BY <2>1, <3>1, ConcatAt
    <3> QED BY <3>1, <3>2 DEF FlatAt
  <2> QED BY <2>2, <2>3
<1>4. h \in [1 .. n + 1 -> Seq(S)]
  BY <1>3
<1> HIDE DEF h
<1>5. ASSUME NEW i \in 1 .. n + 1 PROVE h[i] = FlatAt(s, h, i)
  <2>1. FlatAt(s, h, i) = FlatAt(s, g, i)
    <3>1. i = 1 \/ (i - 1 \in 1 .. n /\ i # 1)
      OBVIOUS
    <3> QED BY <3>1, <1>1 DEF FlatAt
  <2>2. i \in 1 .. n \/ i = n + 1
    OBVIOUS
  <2> QED BY <1>1, <1>2, <2>1, <2>2 DEF Flattens
<1> QED BY <1>4, <1>5 DEF Flattens

LEMMA FlattensAll ==
  ASSUME NEW S, NEW s \in Seq(Seq(S))
  PROVE  \E g \in [1 .. Len(s) -> Seq(S)] : Flattens(s, Len(s), g)
<1> DEFINE Some(n) == \E g \in [1 .. n -> Seq(S)] : Flattens(s, n, g)
           C == {n \in 0 .. Len(s) : ~Some(n)}
<1> SUFFICES ASSUME ~Some(Len(s)) PROVE FALSE
  OBVIOUS
<1>0. Len(s) \in Nat
  OBVIOUS
<1> HIDE DEF Some
<1>1. PICK n \in C : \A k \in C : n <= k
  <2>1. C \subseteq Nat /\ Len(s) \in C
    BY <1>0
  <2> HIDE DEF C
  <2> QED BY <2>1, SmallestIn
<1>2. CASE n = 0
  <2>1. Flattens(s, 0, [i \in 1 .. 0 |-> <<>>]) /\ [i \in 1 .. 0 |-> <<>>] \in [1 .. 0 -> Seq(S)]
    BY DEF Flattens
  <2>2. Some(0)
    BY <2>1 DEF Some
  <2> QED BY <1>2, <2>2
<1>3. CASE n # 0
  <2>1. n - 1 \in 0 .. Len(s) /\ n - 1 < Len(s) /\ n - 1 \in Nat /\ (n - 1) + 1 = n /\ ~(n <= n - 1)
    BY <1>0, <1>3
  <2>2. Some(n - 1)
    BY <1>1, <2>1
  <2>3. PICK g \in [1 .. n - 1 -> Seq(S)] : Flattens(s, n - 1, g)
    BY <2>2 DEF Some
  <2>4. \E h \in [1 .. (n - 1) + 1 -> Seq(S)] : Flattens(s, (n - 1) + 1, h)
    BY <2>1, <2>3, FlattensMore
  <2>5. Some(n)
    BY <2>1, <2>4 DEF Some
  <2> QED BY <2>5
<1> QED BY <1>2, <1>3

Agree(s, t, n) == \A i \in 1 .. n : s[i] = t[i]

(* Two solutions of the recursion agree. *)
LEMMA FlattensOne ==
  ASSUME NEW s, NEW t, NEW n \in Nat, NEW g, NEW h, Flattens(s, n, g), Flattens(t, n, h),
         Agree(s, t, n)
  PROVE  Agree(g, h, n)
<1> DEFINE C == {i \in 1 .. n : g[i] # h[i]}
<1> SUFFICES ASSUME C # {} PROVE FALSE
  BY DEF Agree
<1>1. PICK k \in C : \A j \in C : k <= j
  <2>1. C \subseteq Nat
    OBVIOUS
  <2> HIDE DEF C
  <2> QED BY <2>1, SmallestIn
<1>2. k \in 1 .. n /\ g[k] # h[k] /\ g[k] = FlatAt(s, g, k) /\ h[k] = FlatAt(t, h, k) /\ s[k] = t[k]
  BY DEF Flattens, Agree
<1>3. CASE k = 1
  BY <1>2, <1>3 DEF FlatAt
<1>4. CASE k # 1
  <2>1. k - 1 \in 1 .. n /\ ~(k <= k - 1)
    BY <1>2, <1>4
  <2>2. g[k - 1] = h[k - 1]
    BY <1>1, <2>1
  <2> QED BY <1>2, <1>4, <2>2 DEF FlatAt
<1> QED BY <1>3, <1>4

(* FlattenSeq is the last value of a solution. *)
LEMMA FlattenIs ==
  ASSUME NEW S, NEW s \in Seq(Seq(S)), Len(s) # 0
  PROVE  \E g \in [1 .. Len(s) -> Seq(S)] : Flattens(s, Len(s), g) /\ FlattenSeq(s) = g[Len(s)]
<1> DEFINE c == CHOOSE g : g = [i \in 1 .. Len(s) |-> IF i = 1 THEN s[i] ELSE g[i - 1] \o s[i]]
<1>1. FlattenSeq(s) = c[Len(s)]
  BY DEF FlattenSeq
<1>2. PICK g \in [1 .. Len(s) -> Seq(S)] : Flattens(s, Len(s), g)
  BY FlattensAll
<1>3. g = [i \in 1 .. Len(s) |-> IF i = 1 THEN s[i] ELSE g[i - 1] \o s[i]]
  BY <1>2 DEF Flattens, FlatAt
<1>4. c = [i \in 1 .. Len(s) |-> IF i = 1 THEN s[i] ELSE c[i - 1] \o s[i]]
  BY <1>3
<1> HIDE DEF c
<1>5. Flattens(s, Len(s), c)
  BY <1>4 DEF Flattens, FlatAt
<1>6. Len(s) \in Nat
  OBVIOUS
<1>7. \A i \in 1 .. Len(s) : c[i] = g[i]
  <2>1. Agree(s, s, Len(s))
    BY DEF Agree
  <2>2. Agree(c, g, Len(s))
    BY <1>2, <1>5, <1>6, <2>1, FlattensOne
  <2> QED BY <2>2 DEF Agree
<1>8. Len(s) \in 1 .. Len(s)
  BY <1>6
<1> QED BY <1>1, <1>2, <1>7, <1>8

(* FlattenSeq of a sequence that has got longer. *)
LEMMA FlattenMore ==
  ASSUME NEW S, NEW s \in Seq(Seq(S)), NEW x \in Seq(S)
  PROVE  FlattenSeq(s) \in Seq(S) /\ FlattenSeq(Append(s, x)) = FlattenSeq(s) \o x
<1> DEFINE t == Append(s, x)
           n == Len(s)
<1>1. /\ t \in Seq(Seq(S)) /\ n \in Nat /\ Len(t) = n + 1
      /\ \A i \in 1 .. n : t[i] = s[i]
      /\ t[n + 1] = x
  OBVIOUS
<1> HIDE DEF t, n
<1>2. PICK h \in [1 .. n + 1 -> Seq(S)] : Flattens(t, n + 1, h) /\ FlattenSeq(t) = h[n + 1]
  <2>1. Len(t) # 0
    BY <1>1
  <2>2. \E g \in [1 .. Len(t) -> Seq(S)] : Flattens(t, Len(t), g) /\ FlattenSeq(t) = g[Len(t)]
    BY <1>1, <2>1, FlattenIs
  <2> QED BY <1>1, <2>2
<1>3. h[n + 1] = FlatAt(t, h, n + 1)
  BY <1>1, <1>2 DEF Flattens
<1>4. CASE n = 0
  <2>1. s = <<>> /\ Len(s) = 0
    BY <1>4 DEF n
  <2>2. FlattenSeq(s) = <<>>
    BY <2>1 DEF FlattenSeq
  <2>3. FlattenSeq(t) = x
    BY <1>1, <1>2, <1>3, <1>4 DEF FlatAt
  <2>4. <<>> \o x = x /\ <<>> \in Seq(S)
    OBVIOUS
  <2> QED BY <2>2, <2>3, <2>4 DEF t
<1>5. CASE n # 0
  <2>1. PICK g \in [1 .. n -> Seq(S)] : Flattens(s, n, g) /\ FlattenSeq(s) = g[n]
    BY <1>5, FlattenIs DEF n
  <2>2. Flattens(t, n, h)
    BY <1>1, <1>2 DEF Flattens
  <2>3. \A i \in 1 .. n : h[i] = g[i]
    <3>1. Agree(t, s, n)
      BY <1>1 DEF Agree
    <3>2. Agree(h, g, n)
      BY <1>1, <2>1, <2>2, <3>1, FlattensOne
    <3> QED BY <3>2 DEF Agree
  <2>4. n \in 1 .. n /\ n + 1 # 1 /\ (n + 1) - 1 = n
    BY <1>1, <1>5
  <2>5. FlattenSeq(t) = g[n] \o x
    BY <1>1, <1>2, <1>3, <2>3, <2>4 DEF FlatAt
  <2> QED BY <2>1, <2>4, <2>5 DEF t
<1> QED BY <1>4, <1>5

---------------------------------------------------------------------------
(* What the table of headers holds *)

(* The lines of ls with a header's name. *)
LinesOf(ls, h) ==
  LET sent[n \in 0 .. Len(ls)] ==
        IF n = 0 THEN <<>>
        ELSE IF TokenOf(ls[n][1]) = h THEN Append(sent[n - 1], ls[n]) ELSE sent[n - 1]
  IN sent[Len(ls)]

Line == Names \X Values

(* What is left of a line when j characters of its value have been parsed. *)
LeftOf(s, j) ==
  [i \in 1 .. (Len(s) - j) + 2 |->
     IF i <= Len(s) - j THEN s[j + i] ELSE IF i = (Len(s) - j) + 1 THEN CR ELSE LF]

(* C gives every header its chain of fragments, and no fragment is in two of them. *)
Linked(fi, f, C) ==
  /\ \A h \in Headers : fi[h] = IF C[h] = <<>> THEN 0 ELSE C[h][1]
  /\ \A h \in Headers : \A i \in 1 .. Len(C[h]) :
       C[h][i] \in 1 .. Len(f) /\ f[C[h][i]].next = (IF i = Len(C[h]) THEN 0 ELSE C[h][i + 1])
  /\ \A g, h \in Headers : \A i \in 1 .. Len(C[g]), j \in 1 .. Len(C[h]) :
       C[g][i] = C[h][j] => g = h /\ i = j

(* Fragment k holds t, and its NUL follows. *)
Done(f, d, k, t) ==
  /\ t \in Seq({"x", SP}) /\ f[k].len = Len(t) /\ f[k].offset + Len(t) < Len(d)
  /\ \A i \in 1 .. Len(t) : d[f[k].offset + i] = t[i]
  /\ d[f[k].offset + Len(t) + 1] = NUL

(* The fragments of header h, whose lines were v and whose chain is c, hold them.  When *)
(* the first value is empty the spaces of the others are lost.                          *)
HoldsOf(f, d, h, c, v) ==
  \A i \in 1 .. Len(v) : i = 1 \/ ~Untrimmed(v[1][2]) => Done(f, d, c[i], Piece(h, v, i))

(* Every line with a name of the table has its fragment, and so has the one being read. *)
Counts(C, ls, ps) ==
  \A h \in Headers :
    /\ h \in ClientTokens => LinesOf(ls, h) = <<>>
    /\ h \notin ClientTokens => Len(C[h]) = Len(LinesOf(ls, h)) + (IF h = ps THEN 1 ELSE 0)

Collected(f, d, C, ls) == \A h \in Headers : HoldsOf(f, d, h, C[h], LinesOf(ls, h))

Table(ls, C, fi, f, d, ps) == Linked(fi, f, C) /\ Counts(C, ls, ps) /\ Collected(f, d, C, ls)

(* The first fragment of header h, when j characters of s have been read, of which n were *)
(* spaces in front.                                                                        *)
Began(f, d, h, s, j, n) ==
  /\ f[Len(f)].len = j - n
  /\ \A i \in 1 .. n : s[i] = SP
  /\ \A i \in 1 .. j - n : d[f[Len(f)].offset + i] = s[n + i]
  /\ j > n => s[n + 1] # SP
  /\ h = "GET_URI" => \A i \in 1 .. j - n : s[n + i] # SP

(* A later one, which holds a space and the characters. *)
GoesOn(f, d, s, j) ==
  /\ f[Len(f)].len = j + 1 /\ d[f[Len(f)].offset + 1] = SP
  /\ \A i \in 1 .. j : d[f[Len(f)].offset + 1 + i] = s[i]

InLine(f, d, h, c, v, s, j) ==
  /\ c[Len(c)] = Len(f) /\ f[Len(f)].offset + f[Len(f)].len = Len(d)
  /\ Len(c) = 1 => \E n \in 0 .. j : Began(f, d, h, s, j, n)
  /\ Len(c) > 1 => h # "GET_URI" /\ (~Untrimmed(v[1][2]) => GoesOn(f, d, s, j))

(* Where the parser is in what the peer has sent, lns, of which ls has been dealt with. *)
AtName(ls, ps, lp, inp, lns) == ps = "NAME_PART" /\ lp = 0 /\ inp = <<>> /\ lns = ls
AtLine(ls, ps, lp, inp, lns) ==
  /\ ps = "NAME_PART" /\ lp = 0
  /\ \E l \in Line : lns = Append(ls, l) /\ inp # <<>> /\ Head(inp) = l[1] /\ Tail(inp) = LeftOf(l[2], 0)
AtValue(ls, C, f, d, ps, inp, lns) ==
  /\ ps \in Headers
  /\ \E l \in Line : \E j \in 0 .. Len(l[2]) :
       /\ lns = Append(ls, l) /\ TokenOf(l[1]) = ps /\ inp = LeftOf(l[2], j)
       /\ InLine(f, d, ps, C[ps], LinesOf(ls, ps), l[2], j)
AtSkip(ls, ps, inp, lns) ==
  /\ ps = "SKIPPING" /\ lns = ls /\ ls # <<>>
  /\ \E s \in Values : \E j \in 0 .. Len(s) : inp = LeftOf(s, j)
AtCR(ls, ps, inp, lns) == ps = "SKIPPING_SAW_CR" /\ lns = ls /\ ls # <<>> /\ inp = <<LF>>
AtEnds(ls, ps, lp, inp, lns) ==
  /\ ps = "NAME_PART" /\ lns = ls /\ ls # <<>>
  /\ (lp = 0 /\ inp = <<CR, LF>>) \/ (lp = 1 /\ inp = <<LF>>)
AtComplete(ls, ps, lns) == ps = "PARSING_COMPLETE" /\ lns = ls /\ ls # <<>>

Placed(ls, C, f, d, ps, lp, inp, lns) ==
  \/ AtName(ls, ps, lp, inp, lns)
  \/ AtLine(ls, ps, lp, inp, lns)
  \/ AtValue(ls, C, f, d, ps, inp, lns)
  \/ AtSkip(ls, ps, inp, lns)
  \/ AtCR(ls, ps, inp, lns)
  \/ AtEnds(ls, ps, lp, inp, lns)
  \/ AtComplete(ls, ps, lns)

(* Until the connection is dropped the parser is in its place in a line, and the table holds *)
(* the lines before.                                                                          *)
CollectInv ==
  /\ dropped => parser_state # "PARSING_COMPLETE"
  /\ ~dropped => \E ls \in Seq(Line), C \in [Headers -> Seq(Nat)] :
       /\ Table(ls, C, frag_index, frags, data, parser_state)
       /\ Placed(ls, C, frags, data, parser_state, lextable_pos, input, lines)

(* A line is added to those of its header. *)
Listed(h, v, l) == IF TokenOf(l[1]) = h THEN Append(v, l) ELSE v

LEMMA ListedType ==
  ASSUME NEW h, NEW v \in Seq(Line), NEW l \in Line
  PROVE  Listed(h, v, l) \in Seq(Line)
BY DEF Listed

(* What the recursion of LinesOf puts together at n. *)
LineAt(h, f, d, n) == IF n = 0 THEN <<>> ELSE Listed(h, d[n - 1], f[n])

ListsOf(h, f, n, d) == \A i \in 0 .. n : d[i] = LineAt(h, f, d, i)

LEMMA ListsMore ==
  ASSUME NEW h, NEW f \in Seq(Line), NEW n \in Nat, n < Len(f),
         NEW d \in [0 .. n -> Seq(Line)], ListsOf(h, f, n, d)
  PROVE  \E e \in [0 .. n + 1 -> Seq(Line)] : ListsOf(h, f, n + 1, e)
<1> DEFINE e == [i \in 0 .. n + 1 |-> IF i = n + 1 THEN Listed(h, d[n], f[n + 1]) ELSE d[i]]
<1>1. \A i \in 0 .. n : e[i] = d[i]
  OBVIOUS
<1>2. e[n + 1] = Listed(h, d[n], f[n + 1])
  OBVIOUS
<1>3. Listed(h, d[n], f[n + 1]) \in Seq(Line)
  <2>1. d[n] \in Seq(Line) /\ f[n + 1] \in Line
    OBVIOUS
  <2> QED BY <2>1, ListedType
<1>4. e \in [0 .. n + 1 -> Seq(Line)]
  BY <1>3
<1> HIDE DEF e
<1>5. ASSUME NEW i \in 0 .. n + 1 PROVE e[i] = LineAt(h, f, e, i)
  <2>1. CASE i = n + 1
    <3>1. i - 1 = n /\ i # 0 /\ n \in 0 .. n
      BY <2>1
    <3> QED BY <1>1, <1>2, <2>1, <3>1 DEF LineAt
  <2>2. CASE i \in 0 .. n
    <3>1. i = 0 \/ i - 1 \in 0 .. n
      BY <2>2
    <3>2. LineAt(h, f, e, i) = LineAt(h, f, d, i)
      BY <1>1, <3>1 DEF LineAt
    <3> QED BY <1>1, <2>2, <3>2 DEF ListsOf
  <2> QED BY <2>1, <2>2
<1> QED BY <1>4, <1>5 DEF ListsOf

LEMMA ListsAll ==
  ASSUME NEW h, NEW f \in Seq(Line)
  PROVE  \E d \in [0 .. Len(f) -> Seq(Line)] : ListsOf(h, f, Len(f), d)
<1> DEFINE Some(n) == \E d \in [0 .. n -> Seq(Line)] : ListsOf(h, f, n, d)
           C == {n \in 0 .. Len(f) : ~Some(n)}
<1> SUFFICES ASSUME ~Some(Len(f)) PROVE FALSE
  OBVIOUS
<1>0. Len(f) \in Nat
  OBVIOUS
<1> HIDE DEF Some
<1>1. PICK n \in C : \A k \in C : n <= k
  <2>1. C \subseteq Nat /\ Len(f) \in C
    BY <1>0
  <2> HIDE DEF C
  <2> QED BY <2>1, SmallestIn
<1>2. CASE n = 0
  <2>1. <<>> \in Seq(Line)
    OBVIOUS
  <2>2. ListsOf(h, f, 0, [i \in 0 .. 0 |-> <<>>]) /\ [i \in 0 .. 0 |-> <<>>] \in [0 .. 0 -> Seq(Line)]
    BY <2>1 DEF ListsOf, LineAt
  <2>3. Some(0)
    BY <2>2 DEF Some
  <2> QED BY <1>2, <2>3
<1>3. CASE n # 0
  <2>1. n - 1 \in 0 .. Len(f) /\ n - 1 < Len(f) /\ n - 1 \in Nat /\ (n - 1) + 1 = n /\ ~(n <= n - 1)
    BY <1>0, <1>3
  <2>2. Some(n - 1)
    BY <1>1, <2>1
  <2>3. PICK d \in [0 .. n - 1 -> Seq(Line)] : ListsOf(h, f, n - 1, d)
    BY <2>2 DEF Some
  <2>4. \E e \in [0 .. (n - 1) + 1 -> Seq(Line)] : ListsOf(h, f, (n - 1) + 1, e)
    BY <2>1, <2>3, ListsMore
  <2>5. Some(n)
    BY <2>1, <2>4 DEF Some
  <2> QED BY <2>5
<1> QED BY <1>2, <1>3

AgreeFrom0(d, e, n) == \A i \in 0 .. n : d[i] = e[i]

(* Two solutions agree as far as the lines do. *)
LEMMA ListsOne ==
  ASSUME NEW h, NEW f, NEW g, NEW n \in Nat, NEW d, NEW e, ListsOf(h, f, n, d), ListsOf(h, g, n, e),
         Agree(f, g, n)
  PROVE  AgreeFrom0(d, e, n)
<1> DEFINE C == {i \in 0 .. n : d[i] # e[i]}
<1> SUFFICES ASSUME C # {} PROVE FALSE
  BY DEF AgreeFrom0
<1>1. PICK k \in C : \A j \in C : k <= j
  <2>1. C \subseteq Nat
    OBVIOUS
  <2> HIDE DEF C
  <2> QED BY <2>1, SmallestIn
<1>2. k \in 0 .. n /\ d[k] # e[k] /\ d[k] = LineAt(h, f, d, k) /\ e[k] = LineAt(h, g, e, k)
  BY DEF ListsOf
<1>3. CASE k = 0
  BY <1>2, <1>3 DEF LineAt
<1>4. CASE k # 0
  <2>1. k - 1 \in 0 .. n /\ ~(k <= k - 1) /\ k \in 1 .. n
    BY <1>2, <1>4
  <2>2. d[k - 1] = e[k - 1] /\ f[k] = g[k]
    BY <1>1, <2>1 DEF Agree
  <2> QED BY <1>2, <1>4, <2>2 DEF LineAt
<1> QED BY <1>3, <1>4

LEMMA LinesIs ==
  ASSUME NEW h, NEW f \in Seq(Line)
  PROVE  \E d \in [0 .. Len(f) -> Seq(Line)] : ListsOf(h, f, Len(f), d) /\ LinesOf(f, h) = d[Len(f)]
<1> DEFINE c == CHOOSE d : d = [n \in 0 .. Len(f) |->
                  IF n = 0 THEN <<>> ELSE Listed(h, d[n - 1], f[n])]
<1>1. LinesOf(f, h) = c[Len(f)]
  BY DEF LinesOf, Listed
<1>2. PICK d \in [0 .. Len(f) -> Seq(Line)] : ListsOf(h, f, Len(f), d)
  BY ListsAll
<1>3. d = [n \in 0 .. Len(f) |->
             IF n = 0 THEN <<>> ELSE Listed(h, d[n - 1], f[n])]
  BY <1>2 DEF ListsOf, LineAt
<1>4. c = [n \in 0 .. Len(f) |->
             IF n = 0 THEN <<>> ELSE Listed(h, c[n - 1], f[n])]
  BY <1>3
<1> HIDE DEF c
<1>5. ListsOf(h, f, Len(f), c)
  BY <1>4 DEF ListsOf, LineAt
<1>6. Len(f) \in Nat
  OBVIOUS
<1>7. \A i \in 0 .. Len(f) : c[i] = d[i]
  <2>1. Agree(f, f, Len(f))
    BY DEF Agree
  <2>2. AgreeFrom0(c, d, Len(f))
    BY <1>2, <1>5, <1>6, <2>1, ListsOne
  <2> QED BY <2>2 DEF AgreeFrom0
<1> QED BY <1>1, <1>2, <1>6, <1>7

(* A line more. *)
LEMMA LinesMore ==
  ASSUME NEW h, NEW f \in Seq(Line), NEW u \in Line
  PROVE  LinesOf(f, h) \in Seq(Line) /\ LinesOf(Append(f, u), h) = Listed(h, LinesOf(f, h), u)
<1> DEFINE g == Append(f, u)
           n == Len(f)
<1>1. /\ g \in Seq(Line) /\ n \in Nat /\ Len(g) = n + 1
      /\ \A i \in 1 .. n : g[i] = f[i]
      /\ g[n + 1] = u
  OBVIOUS
<1>2. PICK d \in [0 .. n -> Seq(Line)] : ListsOf(h, f, n, d) /\ LinesOf(f, h) = d[n]
  BY LinesIs
<1> HIDE DEF g, n
<1>3. PICK e \in [0 .. n + 1 -> Seq(Line)] : ListsOf(h, g, n + 1, e) /\ LinesOf(g, h) = e[n + 1]
  <2>1. \E e \in [0 .. Len(g) -> Seq(Line)] : ListsOf(h, g, Len(g), e) /\ LinesOf(g, h) = e[Len(g)]
    BY <1>1, LinesIs
  <2> QED BY <1>1, <2>1
<1>4. ListsOf(h, g, n, e) /\ e[n + 1] = LineAt(h, g, e, n + 1)
  BY <1>1, <1>3 DEF ListsOf
<1>5. Agree(f, g, n)
  BY <1>1 DEF Agree
<1>6. \A i \in 0 .. n : d[i] = e[i]
  <2>1. AgreeFrom0(d, e, n)
    BY <1>1, <1>2, <1>4, <1>5, ListsOne
  <2> QED BY <2>1 DEF AgreeFrom0
<1>7. n \in 0 .. n /\ (n + 1) - 1 = n /\ n + 1 # 0
  BY <1>1
<1>8. LinesOf(g, h) = Listed(h, d[n], u)
  BY <1>1, <1>3, <1>4, <1>6, <1>7 DEF LineAt
<1> QED BY <1>2, <1>7, <1>8 DEF g


LEMMA LinesNone ==
  ASSUME NEW h
  PROVE  LinesOf(<<>>, h) = <<>>
<1>1. <<>> \in Seq(Line) /\ Len(<<>>) = 0
  OBVIOUS
<1>2. PICK d : ListsOf(h, <<>>, 0, d) /\ LinesOf(<<>>, h) = d[0]
  BY <1>1, LinesIs
<1> QED BY <1>2 DEF ListsOf, LineAt

LEMMA SentLines == \A h : Sent(h) = LinesOf(lines, h)
BY DEF Sent, LinesOf

---------------------------------------------------------------------------
(* Values, and what is left of them *)

LEMMA ValueIs ==
  ASSUME NEW s \in Values
  PROVE  s \in Seq({"x", SP}) /\ Len(s) \in Nat /\ \A i \in 1 .. Len(s) : s[i] \in {"x", SP}
<1>1. PICK n \in 0 .. MaxValue : s \in [1 .. n -> {"x", SP}]
  BY DEF Values
<1>2. MaxValue \in Nat
  BY HeadersAssumption
<1>3. n \in Nat
  BY <1>2
<1> QED BY <1>1, <1>3

LEMMA LineIs ==
  ASSUME NEW l \in Line
  PROVE  l[1] \in Names /\ l[2] \in Values /\ l = <<l[1], l[2]>>
BY DEF Line

LEMMA LeftAt ==
  ASSUME NEW s \in Values, NEW j \in 0 .. Len(s)
  PROVE  /\ LeftOf(s, j) \in Seq({"x", SP, CR, LF}) /\ Len(LeftOf(s, j)) = (Len(s) - j) + 2
         /\ \A i \in 1 .. Len(s) - j : LeftOf(s, j)[i] = s[j + i]
         /\ LeftOf(s, j)[(Len(s) - j) + 1] = CR /\ LeftOf(s, j)[(Len(s) - j) + 2] = LF
<1> DEFINE m == Len(s) - j
           g == [i \in 1 .. m + 2 |-> IF i <= m THEN s[j + i] ELSE IF i = m + 1 THEN CR ELSE LF]
<1>1. Len(s) \in Nat /\ m \in Nat /\ \A i \in 1 .. Len(s) : s[i] \in {"x", SP}
  BY ValueIs
<1>2. ASSUME NEW i \in 1 .. m + 2
      PROVE  (IF i <= m THEN s[j + i] ELSE IF i = m + 1 THEN CR ELSE LF) \in {"x", SP, CR, LF}
  <2>1. CASE i <= m
    <3>1. j + i \in 1 .. Len(s)
      BY <1>1, <2>1
    <3>2. s[j + i] \in {"x", SP}
      BY <1>1, <3>1
    <3> QED BY <2>1, <3>2
  <2> QED BY <2>1
<1>3. g \in [1 .. m + 2 -> {"x", SP, CR, LF}]
  BY <1>2
<1>4. /\ \A i \in 1 .. m : g[i] = s[j + i]
      /\ g[m + 1] = CR /\ g[m + 2] = LF
  BY <1>1
<1>5. LeftOf(s, j) = g
  BY DEF LeftOf
<1>6. m + 2 \in Nat
  BY <1>1
<1> HIDE DEF g
<1>7. g \in Seq({"x", SP, CR, LF}) /\ Len(g) = m + 2
  BY <1>3, <1>6, GivenAt
<1> QED BY <1>4, <1>5, <1>7

(* A character of the value is next, or the end of the line. *)
LEMMA LeftMore ==
  ASSUME NEW s \in Values, NEW j \in 0 .. Len(s), j # Len(s)
  PROVE  /\ LeftOf(s, j) # <<>> /\ Head(LeftOf(s, j)) = s[j + 1] /\ s[j + 1] \in {"x", SP}
         /\ Tail(LeftOf(s, j)) = LeftOf(s, j + 1) /\ j + 1 \in 0 .. Len(s)
<1> DEFINE T == {"x", SP, CR, LF}
           a == LeftOf(s, j)
           b == LeftOf(s, j + 1)
           n == Len(s)
<1>1. n \in Nat /\ j + 1 \in 0 .. n /\ j + 1 \in 1 .. n /\ j \in Nat /\ s[j + 1] \in {"x", SP}
  BY ValueIs
<1>2. /\ a \in Seq(T) /\ Len(a) = (n - j) + 2
      /\ \A i \in 1 .. n - j : a[i] = s[j + i]
      /\ a[(n - j) + 1] = CR /\ a[(n - j) + 2] = LF
  BY LeftAt
<1>3. /\ b \in Seq(T) /\ Len(b) = (n - (j + 1)) + 2
      /\ \A i \in 1 .. n - (j + 1) : b[i] = s[(j + 1) + i]
      /\ b[(n - (j + 1)) + 1] = CR /\ b[(n - (j + 1)) + 2] = LF
  BY <1>1, LeftAt
<1> HIDE DEF a, b, n, T
<1>4. a # <<>>
  BY <1>1, <1>2, EmptySeq
<1>5. /\ Tail(a) \in Seq(T) /\ Len(Tail(a)) = Len(a) - 1
      /\ \A i \in 1 .. Len(a) - 1 : Tail(a)[i] = a[i + 1]
      /\ Head(a) = a[1]
  BY <1>2, <1>4, TailAt
<1>6. Head(a) = s[j + 1]
  <2>1. 1 \in 1 .. n - j
    BY <1>1
  <2> QED BY <1>2, <1>5, <2>1
<1>7. ASSUME NEW i \in 1 .. Len(b) PROVE Tail(a)[i] = b[i]
  <2>1. i \in 1 .. Len(a) - 1 /\ i \in Nat
    BY <1>1, <1>2, <1>3
  <2>2. Tail(a)[i] = a[i + 1]
    BY <1>5, <2>1
  <2>3. CASE i \in 1 .. n - (j + 1)
    <3>1. i + 1 \in 1 .. n - j /\ j + (i + 1) = (j + 1) + i
      BY <1>1, <2>3
    <3> QED BY <1>2, <1>3, <2>2, <2>3, <3>1
  <2>4. CASE i = (n - (j + 1)) + 1
    <3>1. i + 1 = (n - j) + 1
      BY <1>1, <2>4
    <3> QED BY <1>2, <1>3, <2>2, <2>4, <3>1
  <2>5. CASE i = (n - (j + 1)) + 2
    <3>1. i + 1 = (n - j) + 2
      BY <1>1, <2>5
    <3> QED BY <1>2, <1>3, <2>2, <2>5, <3>1
  <2>6. i \in 1 .. n - (j + 1) \/ i = (n - (j + 1)) + 1 \/ i = (n - (j + 1)) + 2
    BY <1>1, <1>3
  <2> QED BY <2>3, <2>4, <2>5, <2>6
<1>8. Len(Tail(a)) = Len(b)
  BY <1>1, <1>2, <1>3, <1>5
<1>9. Tail(a) = b
  BY <1>3, <1>5, <1>7, <1>8, SameSeq
<1> QED BY <1>1, <1>4, <1>6, <1>9 DEF a, b, n

LEMMA LeftEnd ==
  ASSUME NEW s \in Values
  PROVE  /\ LeftOf(s, Len(s)) # <<>> /\ Head(LeftOf(s, Len(s))) = CR
         /\ Tail(LeftOf(s, Len(s))) = <<LF>> /\ Len(s) \in 0 .. Len(s)
<1> DEFINE T == {"x", SP, CR, LF}
           a == LeftOf(s, Len(s))
<1>1. Len(s) \in Nat /\ Len(s) \in 0 .. Len(s) /\ Len(s) - Len(s) = 0
  BY ValueIs
<1>2. a \in Seq(T) /\ Len(a) = 2 /\ a[1] = CR /\ a[2] = LF
  <2>1. /\ LeftOf(s, Len(s)) \in Seq(T) /\ Len(LeftOf(s, Len(s))) = (Len(s) - Len(s)) + 2
        /\ LeftOf(s, Len(s))[(Len(s) - Len(s)) + 1] = CR /\ LeftOf(s, Len(s))[(Len(s) - Len(s)) + 2] = LF
    BY <1>1, LeftAt
  <2>2. (Len(s) - Len(s)) + 1 = 1 /\ (Len(s) - Len(s)) + 2 = 2
    BY <1>1
  <2> QED BY <2>1, <2>2
<1> HIDE DEF a, T
<1>3. a # <<>>
  BY <1>2
<1>4. /\ Tail(a) \in Seq(T) /\ Len(Tail(a)) = Len(a) - 1
      /\ \A i \in 1 .. Len(a) - 1 : Tail(a)[i] = a[i + 1]
      /\ Head(a) = a[1]
  BY <1>2, <1>3, TailAt, Zenon
<1>5. Len(Tail(a)) = 1 /\ Tail(a)[1] = LF
  BY <1>2, <1>4
<1>6. <<LF>> \in Seq(T) /\ Len(<<LF>>) = 1 /\ <<LF>>[1] = LF
  BY DEF T
<1>7. Tail(a) = <<LF>>
  <2>1. \A i \in 1 .. Len(Tail(a)) : Tail(a)[i] = <<LF>>[i]
    BY <1>5, <1>6
  <2>2. Len(Tail(a)) = Len(<<LF>>) /\ Tail(a) \in Seq(T) /\ <<LF>> \in Seq(T)
    BY <1>4, <1>5, <1>6
  <2> QED BY <2>1, <2>2, SameSeq
<1> QED BY <1>1, <1>2, <1>3, <1>4, <1>7 DEF a

---------------------------------------------------------------------------
(* Spaces in front, and the first word *)

(* n is the number of spaces s begins with. *)
TrimAt(s, n) == n \in 0 .. Len(s) /\ (\A i \in 1 .. n : s[i] = SP) /\ (n = Len(s) \/ s[n + 1] # SP)

(* m is the length of the first word of t. *)
CutAt(t, m) == m \in 0 .. Len(t) /\ (\A i \in 1 .. m : t[i] # SP) /\ (m = Len(t) \/ t[m + 1] = SP)

LEMMA TrimSome ==
  ASSUME NEW s \in Values
  PROVE  \E n : TrimAt(s, n)
<1> DEFINE C == {i \in 0 .. Len(s) : i = Len(s) \/ s[i + 1] # SP}
<1>1. Len(s) \in Nat /\ Len(s) \in C
  BY ValueIs
<1>2. PICK n \in C : \A k \in C : n <= k
  <2>1. C \subseteq Nat
    BY <1>1
  <2> HIDE DEF C
  <2> QED BY <1>1, <2>1, SmallestIn
<1>3. n \in 0 .. Len(s) /\ (n = Len(s) \/ s[n + 1] # SP)
  OBVIOUS
<1>4. ASSUME NEW i \in 1 .. n PROVE s[i] = SP
  <2>1. i - 1 \in 0 .. Len(s) /\ ~(n <= i - 1) /\ (i - 1) + 1 = i
    BY <1>1, <1>3
  <2>2. i - 1 \notin C
    <3> HIDE DEF C
    <3> QED BY <1>2, <2>1
  <2> QED BY <2>1, <2>2
<1> QED BY <1>3, <1>4 DEF TrimAt

LEMMA TrimmedIs ==
  ASSUME NEW s \in Values, NEW n, TrimAt(s, n)
  PROVE  /\ Trimmed(s) = SubSeq(s, n + 1, Len(s)) /\ Trimmed(s) \in Seq({"x", SP})
         /\ Len(Trimmed(s)) = Len(s) - n /\ \A i \in 1 .. Len(s) - n : Trimmed(s)[i] = s[n + i]
<1> DEFINE P(i) == /\ i = Len(s) + 1 \/ s[i] # SP
                   /\ \A j \in 1 .. i - 1 : s[j] = SP
           first == CHOOSE i \in 1 .. Len(s) + 1 : P(i)
<1>1. Len(s) \in Nat /\ n \in 0 .. Len(s) /\ (\A i \in 1 .. n : s[i] = SP) /\ (n = Len(s) \/ s[n + 1] # SP)
  BY ValueIs DEF TrimAt
<1>2. n + 1 \in 1 .. Len(s) + 1 /\ P(n + 1)
  <2>1. n + 1 \in 1 .. Len(s) + 1 /\ (n + 1) - 1 = n
    BY <1>1
  <2> QED BY <1>1, <2>1
<1>3. ASSUME NEW k \in 1 .. Len(s) + 1, P(k) PROVE k = n + 1
  <2>1. CASE k < n + 1
    <3>1. k \in 1 .. n /\ k # Len(s) + 1
      BY <1>1, <2>1
    <3> QED BY <1>1, <1>3, <3>1
  <2>2. CASE k > n + 1
    <3>1. n + 1 \in 1 .. k - 1 /\ n # Len(s)
      BY <1>1, <2>2
    <3> QED BY <1>1, <1>3, <3>1
  <2> QED BY <1>1, <2>1, <2>2
<1> HIDE DEF P
<1>4. first = n + 1
  BY <1>2, <1>3
<1>5. Trimmed(s) = SubSeq(s, first, Len(s))
  BY DEF Trimmed, P
<1>6. Trimmed(s) = SubSeq(s, n + 1, Len(s))
  BY <1>4, <1>5
<1>7. s \in Seq({"x", SP})
  BY ValueIs
<1> HIDE DEF first
<1>8. /\ SubSeq(s, n + 1, Len(s)) \in Seq({"x", SP}) /\ Len(SubSeq(s, n + 1, Len(s))) = Len(s) - n
      /\ \A i \in 1 .. Len(s) - n : SubSeq(s, n + 1, Len(s))[i] = s[n + i]
  BY <1>1, <1>7
<1> QED BY <1>6, <1>8

(* The first word of a value: m characters behind its n spaces. *)
LEMMA FirstWordIs ==
  ASSUME NEW s \in Values, NEW n, TrimAt(s, n), NEW m, CutAt(Trimmed(s), m)
  PROVE  /\ FirstWord(s) \in Seq({"x", SP}) /\ Len(FirstWord(s)) = m
         /\ \A i \in 1 .. m : FirstWord(s)[i] = s[n + i]
<1> DEFINE t == Trimmed(s)
           P(i) == /\ i = Len(t) + 1 \/ t[i] = SP
                   /\ \A j \in 1 .. i - 1 : t[j] # SP
           cut == CHOOSE i \in 1 .. Len(t) + 1 : P(i)
<1>0. /\ t \in Seq({"x", SP}) /\ Len(t) = Len(s) - n
      /\ \A i \in 1 .. Len(s) - n : t[i] = s[n + i]
  BY TrimmedIs
<1>1. Len(t) \in Nat /\ m \in 0 .. Len(t) /\ (\A i \in 1 .. m : t[i] # SP) /\ (m = Len(t) \/ t[m + 1] = SP)
  BY <1>0 DEF CutAt
<1>5. FirstWord(s) = SubSeq(t, 1, cut - 1)
  BY DEF FirstWord
<1> HIDE DEF t
<1>2. m + 1 \in 1 .. Len(t) + 1 /\ P(m + 1)
  <2>1. m + 1 \in 1 .. Len(t) + 1 /\ (m + 1) - 1 = m
    BY <1>1
  <2> QED BY <1>1, <2>1
<1>3. ASSUME NEW k \in 1 .. Len(t) + 1, P(k) PROVE k = m + 1
  <2>1. CASE k < m + 1
    <3>1. k \in 1 .. m /\ k # Len(t) + 1
      BY <1>1, <2>1
    <3> QED BY <1>1, <1>3, <3>1
  <2>2. CASE k > m + 1
    <3>1. m + 1 \in 1 .. k - 1 /\ m # Len(t)
      BY <1>1, <2>2
    <3> QED BY <1>1, <1>3, <3>1
  <2> QED BY <1>1, <2>1, <2>2
<1> HIDE DEF P
<1>4. cut = m + 1
  BY <1>2, <1>3
<1> HIDE DEF cut
<1>6. cut - 1 = m
  BY <1>1, <1>4
<1>7. FirstWord(s) = SubSeq(t, 1, m)
  BY <1>5, <1>6
<1>8. /\ SubSeq(t, 1, m) \in Seq({"x", SP}) /\ Len(SubSeq(t, 1, m)) = m
      /\ \A i \in 1 .. m : SubSeq(t, 1, m)[i] = t[i] /\ i \in 1 .. Len(t)
  BY <1>0, <1>1
<1> QED BY <1>0, <1>7, <1>8

(* A value that is not only spaces keeps some of its characters. *)
LEMMA TrimmedSome ==
  ASSUME NEW s \in Values, ~Untrimmed(s)
  PROVE  Len(Trimmed(s)) # 0
<1>1. PICK n : TrimAt(s, n)
  BY TrimSome
<1>2. Len(Trimmed(s)) = Len(s) - n
  BY <1>1, TrimmedIs
<1>3. Len(s) \in Nat /\ n \in 0 .. Len(s) /\ DOMAIN s = 1 .. Len(s)
  BY <1>1, ValueIs, SMTT(60) DEF TrimAt
<1>4. n # Len(s)
  BY <1>1, <1>3 DEF TrimAt, Untrimmed
<1> QED BY <1>2, <1>3, <1>4

---------------------------------------------------------------------------
(* The chains *)

(* t is c from its i-th link on. *)
TailOf(t, c, i) ==
  /\ t \in Seq(Nat) /\ Len(t) = (Len(c) - i) + 1
  /\ \A k \in 1 .. (Len(c) - i) + 1 : t[k] = c[(i - 1) + k]

LEMMA TailLast ==
  ASSUME NEW c \in Seq(Nat), Len(c) # 0
  PROVE  TailOf(<<c[Len(c)]>> \o <<>>, c, Len(c))
<1>1. Len(c) \in Nat /\ Len(c) \in 1 .. Len(c) /\ c[Len(c)] \in Nat /\ (Len(c) - Len(c)) + 1 = 1 /\ (Len(c) - 1) + 1 = Len(c)
  OBVIOUS
<1> DEFINE t == <<c[Len(c)]>> \o <<>>
<1>2. t \in Seq(Nat) /\ Len(t) = 1 /\ t[1] = c[Len(c)]
  BY <1>1
<1> HIDE DEF t
<1>3. \A k \in 1 .. 1 : t[k] = c[(Len(c) - 1) + k]
  BY <1>1, <1>2
<1>4. TailOf(t, c, Len(c))
  BY <1>1, <1>2, <1>3 DEF TailOf
<1> QED BY <1>4 DEF t

LEMMA TailMore ==
  ASSUME NEW c \in Seq(Nat), NEW i \in 1 .. Len(c), i # Len(c), NEW t, TailOf(t, c, i + 1)
  PROVE  TailOf(<<c[i]>> \o t, c, i)
<1> DEFINE s == <<c[i]>>
           u == s \o t
<1>1. /\ Len(c) \in Nat /\ c[i] \in Nat /\ t \in Seq(Nat) /\ Len(t) = (Len(c) - (i + 1)) + 1
      /\ \A k \in 1 .. (Len(c) - (i + 1)) + 1 : t[k] = c[((i + 1) - 1) + k]
  BY DEF TailOf
<1>2. s \in Seq(Nat) /\ Len(s) = 1 /\ s[1] = c[i]
  BY <1>1
<1>a. t \in Seq(Nat) /\ s \in Seq(Nat)
  BY <1>1, <1>2
<1> HIDE DEF s
<1>3. /\ u \in Seq(Nat) /\ Len(u) = Len(s) + Len(t)
      /\ \A k \in 1 .. Len(s) : u[k] = s[k]
      /\ \A k \in Len(s) + 1 .. Len(s) + Len(t) : u[k] = t[k - Len(s)]
  BY <1>a, ConcatAt, ZenonT(60)
<1> HIDE DEF u
<1>4. Len(u) = (Len(c) - i) + 1
  BY <1>1, <1>2, <1>3
<1>5. ASSUME NEW k \in 1 .. (Len(c) - i) + 1 PROVE u[k] = c[(i - 1) + k]
  <2>1. CASE k = 1
    <3>1. (i - 1) + 1 = i /\ 1 \in 1 .. Len(s)
      BY <1>2
    <3> QED BY <1>2, <1>3, <2>1, <3>1
  <2>2. CASE k # 1
    <3>1. /\ k \in Len(s) + 1 .. Len(s) + Len(t) /\ k - Len(s) \in 1 .. (Len(c) - (i + 1)) + 1
          /\ ((i + 1) - 1) + (k - Len(s)) = (i - 1) + k
      BY <1>1, <1>2, <2>2
    <3>2. u[k] = t[k - Len(s)]
      BY <1>3, <3>1
    <3>3. t[k - Len(s)] = c[((i + 1) - 1) + (k - Len(s))]
      BY <1>1, <3>1
    <3> QED BY <3>1, <3>2, <3>3
  <2> QED BY <2>1, <2>2
<1>6. TailOf(u, c, i)
  BY <1>3, <1>4, <1>5 DEF TailOf
<1> QED BY <1>6 DEF u, s

(* The chain of a header as the loops over it find it. *)
LEMMA ChainOf ==
  ASSUME Upwards, NEW C \in [Headers -> Seq(Nat)], Linked(frag_index, frags, C), NEW h \in Headers
  PROVE  Chain(frag_index[h]) = C[h]
<1> DEFINE c == C[h]
           n == Len(c)
           f == [k \in 0 .. NFrags |-> Chain(k)]
<1>0. /\ c \in Seq(Nat) /\ n \in Nat /\ NFrags \in Nat /\ Len(frags) \in Nat /\ Len(frags) < NFrags
      /\ frags \in Seq(Fragments)
  <2>1. c \in Seq(Nat)
    OBVIOUS
  <2>2. NFrags \in Nat
    BY HeadersAssumption
  <2> HIDE DEF c
  <2> QED BY <2>1, <2>2 DEF Upwards
<1>1. /\ frag_index[h] = IF c = <<>> THEN 0 ELSE c[1]
      /\ \A i \in 1 .. n : c[i] \in 1 .. Len(frags) /\ frags[c[i]].next = (IF i = n THEN 0 ELSE c[i + 1])
  BY DEF Linked
<1> HIDE DEF c
<1>2. CASE c = <<>>
  <2>1. 0 \in 0 .. NFrags
    BY <1>0
  <2>2. Chain(0) = LinkAt(f, 0)
    BY <2>1, ChainIs
  <2>3. LinkAt(f, 0) = <<>>
    BY DEF LinkAt
  <2> QED BY <1>1, <1>2, <2>2, <2>3 DEF c
<1>3. CASE c # <<>>
  <2> DEFINE B == {j \in 0 .. n - 1 : ~TailOf(Chain(c[n - j]), c, n - j)}
  <2>0. n # 0
    BY <1>0, <1>3
  <2>1. ASSUME B # {} PROVE FALSE
    <3>1. PICK x \in B : \A y \in B : x <= y
      <4>1. B \subseteq Nat
        BY <1>0
      <4> HIDE DEF B
      <4> QED BY <2>1, <4>1, SmallestIn
    <3> DEFINE i == n - x
               k == c[i]
    <3>2. i \in 1 .. n /\ x \in 0 .. n - 1 /\ ~TailOf(Chain(k), c, i)
      BY <1>0
    <3>3. i # n => TailOf(Chain(c[i + 1]), c, i + 1)
      <4> SUFFICES ASSUME i # n PROVE TailOf(Chain(c[i + 1]), c, i + 1)
        OBVIOUS
      <4>1. x - 1 \in 0 .. n - 1 /\ ~(x <= x - 1) /\ n - (x - 1) = i + 1
        BY <1>0, <3>2
      <4>2. x - 1 \notin B
        <5> HIDE DEF B, i
        <5> QED BY <3>1, <4>1
      <4> QED BY <4>1, <4>2
    <3> HIDE DEF i, B
    <3>4. k \in 1 .. Len(frags) /\ frags[k].next = (IF i = n THEN 0 ELSE c[i + 1])
      BY <1>1, <3>2
    <3>5. k \in 0 .. NFrags /\ ~(k = 0 \/ k > Len(frags)) /\ k \in Nat
      BY <1>0, <3>4, SMTT(60)
    <3>6. Chain(k) = LinkAt(f, k)
      BY <3>5, ChainIs
    <3>7. CASE i = n
      <4>1. ~(frags[k].next > k)
        BY <3>4, <3>5, <3>7
      <4>2. Chain(k) = <<k>> \o <<>>
        BY <3>5, <3>6, <4>1, Zenon DEF LinkAt
      <4>3. TailOf(<<c[n]>> \o <<>>, c, n)
        BY <1>0, <2>0, TailLast
      <4> QED BY <3>2, <3>7, <4>2, <4>3
    <3>8. CASE i # n
      <4> DEFINE m == c[i + 1]
      <4>1. i + 1 \in 1 .. n
        BY <1>0, <3>2, <3>8
      <4>2. m \in 1 .. Len(frags) /\ frags[k].next = m
        BY <1>1, <3>4, <3>8, <4>1
      <4>3. m \in k + 1 .. Len(frags)
        BY <3>4, <4>2 DEF Upwards
      <4>4. m > k /\ m \in 0 .. NFrags
        BY <1>0, <3>4, <4>3, SMTT(60)
      <4> HIDE DEF m, k
      <4>5. LinkAt(f, k) = <<k>> \o Chain(m)
        BY <3>5, <4>2, <4>4 DEF LinkAt
      <4>6. TailOf(Chain(m), c, i + 1)
        BY <3>3, <3>8 DEF m
      <4>7. TailOf(<<c[i]>> \o Chain(m), c, i)
        BY <1>0, <3>2, <3>8, <4>6, TailMore
      <4> QED BY <3>2, <3>6, <4>5, <4>7 DEF k
    <3> QED BY <3>7, <3>8
  <2>2. TailOf(Chain(c[1]), c, 1)
    <3>1. n - 1 \in 0 .. n - 1 /\ n - (n - 1) = 1
      BY <1>0, <2>0
    <3>2. n - 1 \notin B
      <4> HIDE DEF B
      <4> QED BY <2>1
    <3> QED BY <3>1, <3>2
  <2> DEFINE t == Chain(c[1])
  <2>3. t \in Seq(Nat) /\ Len(t) = n /\ \A k \in 1 .. n : t[k] = c[k]
    <3>1. /\ t \in Seq(Nat) /\ Len(t) = (n - 1) + 1
          /\ \A k \in 1 .. (n - 1) + 1 : t[k] = c[(1 - 1) + k]
      BY <2>2 DEF TailOf
    <3>2. (n - 1) + 1 = n /\ \A k \in 1 .. n : (1 - 1) + k = k
      BY <1>0
    <3> HIDE DEF t, n
    <3> QED BY <3>1, <3>2
  <2> HIDE DEF t
  <2>4. t = c
    BY <1>0, <2>3, SameSeq
  <2> QED BY <1>1, <1>3, <2>4 DEF t, c
<1> QED BY <1>2, <1>3

---------------------------------------------------------------------------
(* Reading the table back *)

(* What strcpy finds in a fragment. *)
LEMMA TextIs ==
  ASSUME data \in Seq(Chars \cup {NUL}), NEW k, frags[k].offset \in Nat, NEW t, Done(frags, data, k, t)
  PROVE  FragText(k) = t
<1> DEFINE o == frags[k].offset
           ends == {i \in o + 1 .. Len(data) : data[i] = NUL}
           P(i) == \A j \in ends : i <= j
           e == o + Len(t) + 1
<1>1. /\ t \in Seq({"x", SP}) /\ o \in Nat /\ o + Len(t) < Len(data) /\ Len(t) \in Nat /\ Len(data) \in Nat
      /\ \A i \in 1 .. Len(t) : data[o + i] = t[i] /\ t[i] \in {"x", SP}
      /\ data[e] = NUL
  BY DEF Done
<1>5. FragText(k) = LET end == IF ends = {} THEN Len(data) + 1 ELSE CHOOSE i \in ends : P(i)
                    IN SubSeq(data, o + 1, end - 1)
  BY DEF FragText, pos
<1> HIDE DEF o
<1>2. e \in ends
  BY <1>1
<1>3. ASSUME NEW j \in ends PROVE e <= j
  <2>1. j \in o + 1 .. Len(data) /\ data[j] = NUL
    OBVIOUS
  <2>2. CASE j < e
    <3>1. j - o \in 1 .. Len(t) /\ o + (j - o) = j
      BY <1>1, <2>1, <2>2
    <3>2. data[o + (j - o)] \in {"x", SP}
      BY <1>1, <3>1
    <3>3. NUL \notin {"x", SP}
      BY DEF NUL, SP
    <3> QED BY <2>1, <3>1, <3>2, <3>3
  <2> QED BY <1>1, <2>1, <2>2
<1>4. (CHOOSE i \in ends : P(i)) = e
  <2>1. P(e)
    BY <1>3
  <2>2. ASSUME NEW i \in ends, P(i) PROVE i = e
    <3>1. i <= e /\ e <= i
      BY <1>2, <1>3, <2>2
    <3>2. i \in Nat /\ e \in Nat
      BY <1>1
    <3> HIDE DEF ends, P, e
    <3> QED BY <3>1, <3>2
  <2> HIDE DEF ends, P, e
  <2> QED BY <1>2, <2>1, <2>2
<1>6. FragText(k) = SubSeq(data, o + 1, e - 1)
  <2>1. ends # {}
    BY <1>2
  <2> HIDE DEF ends, P, e
  <2> QED BY <1>4, <1>5, <2>1
<1>7. e - 1 = o + Len(t)
  BY <1>1
<1> DEFINE u == SubSeq(data, o + 1, o + Len(t))
<1>8. u \in Seq(Chars \cup {NUL}) /\ Len(u) = Len(t) /\ \A i \in 1 .. Len(t) : u[i] = data[o + i]
  BY <1>1
<1> HIDE DEF u, e
<1>9. u = t
  <2>1. t \in Seq(Chars \cup {NUL}) /\ \A i \in 1 .. Len(u) : u[i] = t[i]
    BY <1>1, <1>8 DEF Chars
  <2> QED BY <1>8, <2>1, SameSeq
<1> QED BY <1>6, <1>7, <1>9 DEF u

(* The sum of the lengths of sequences is the length of all of them. *)
SumAt(L, d, i) == IF i = 0 THEN 0 ELSE d[i - 1] + L[i]

LEMMA SumIs ==
  ASSUME NEW S, NEW s \in Seq(Seq(S)), Len(s) # 0
  PROVE  \E d \in [0 .. Len(s) -> Nat] :
           /\ \A i \in 0 .. Len(s) : d[i] = SumAt([j \in 1 .. Len(s) |-> Len(s[j])], d, i)
           /\ d[Len(s)] = Len(FlattenSeq(s))
<1> DEFINE n == Len(s)
           L == [j \in 1 .. n |-> Len(s[j])]
<1>0. n \in Nat /\ n \in 0 .. n /\ n # 0 /\ \A j \in 1 .. n : s[j] \in Seq(S)
  OBVIOUS
<1>1. PICK g \in [1 .. n -> Seq(S)] : Flattens(s, n, g) /\ FlattenSeq(s) = g[n]
  BY FlattenIs
<1> HIDE DEF n
<1> DEFINE d == [i \in 0 .. n |-> IF i = 0 THEN 0 ELSE Len(g[i])]
<1>2. ASSUME NEW i \in 0 .. n PROVE (IF i = 0 THEN 0 ELSE Len(g[i])) \in Nat
  <2>1. i = 0 \/ i \in 1 .. n
    BY <1>0
  <2> QED BY <2>1
<1>3. d \in [0 .. n -> Nat]
  BY <1>2
<1>4. d[0] = 0 /\ \A i \in 1 .. n : d[i] = Len(g[i])
  BY <1>0
<1> HIDE DEF d
<1>5. \A i \in 1 .. n : L[i] = Len(s[i])
  OBVIOUS
<1> HIDE DEF L
<1>6. ASSUME NEW i \in 0 .. n PROVE d[i] = SumAt(L, d, i)
  <2>1. CASE i = 0
    BY <1>4, <2>1 DEF SumAt
  <2>2. CASE i = 1
    <3>1. 1 \in 1 .. n
      BY <1>0
    <3>2. g[1] = s[1]
      BY <1>1, <3>1 DEF Flattens, FlatAt
    <3>3. d[1] = Len(s[1]) /\ L[1] = Len(s[1]) /\ Len(s[1]) \in Nat
      BY <1>0, <1>4, <1>5, <3>1, <3>2
    <3> QED BY <1>4, <2>2, <3>3 DEF SumAt
  <2>3. CASE i # 0 /\ i # 1
    <3>1. i \in 1 .. n /\ i - 1 \in 1 .. n /\ i # 1
      BY <1>0, <2>3
    <3>2. g[i] = g[i - 1] \o s[i]
      BY <1>1, <3>1 DEF Flattens, FlatAt
    <3>3. g[i - 1] \in Seq(S) /\ s[i] \in Seq(S)
      BY <1>0, <3>1
    <3>4. Len(g[i]) = Len(g[i - 1]) + Len(s[i])
      BY <3>2, <3>3, ConcatAt
    <3> QED BY <1>4, <1>5, <2>3, <3>1, <3>4 DEF SumAt
  <2> QED BY <2>1, <2>2, <2>3
<1>7. n \in 1 .. n
  BY <1>0
<1>8. d[n] = Len(FlattenSeq(s))
  BY <1>1, <1>4, <1>7
<1> QED BY <1>3, <1>6, <1>8 DEF n, L

LEMMA TotalIs ==
  ASSUME NEW S, NEW s \in Seq(Seq(S)), Len(s) # 0, NEW h,
         Len(Chain(frag_index[h])) = Len(s),
         \A i \in 1 .. Len(s) : frags[Chain(frag_index[h])[i]].len = Len(s[i])
  PROVE  lws_hdr_total_length(h) = Len(FlattenSeq(s))
<1> DEFINE c == Chain(frag_index[h])
           n == Len(s)
           L == [j \in 1 .. n |-> Len(s[j])]
           total == CHOOSE t : t = [i \in 0 .. Len(c) |->
                      IF i = 0 THEN 0 ELSE t[i - 1] + frags[c[i]].len]
<1>0. n \in Nat /\ n \in 0 .. n
  OBVIOUS
<1>1. lws_hdr_total_length(h) = total[Len(c)]
  BY DEF lws_hdr_total_length
<1>2. Len(c) = n /\ \A i \in 1 .. n : frags[c[i]].len = L[i]
  OBVIOUS
<1>3. PICK d \in [0 .. n -> Nat] : (\A i \in 0 .. n : d[i] = SumAt(L, d, i)) /\ d[n] = Len(FlattenSeq(s))
  BY SumIs
<1> HIDE DEF c, n, L
<1>4. d = [i \in 0 .. Len(c) |-> IF i = 0 THEN 0 ELSE d[i - 1] + frags[c[i]].len]
  <2>1. ASSUME NEW i \in 0 .. n PROVE d[i] = IF i = 0 THEN 0 ELSE d[i - 1] + frags[c[i]].len
    <3>1. i = 0 \/ i \in 1 .. n
      BY <1>0
    <3> QED BY <1>2, <1>3, <3>1 DEF SumAt
  <2>2. d = [i \in 0 .. n |-> IF i = 0 THEN 0 ELSE d[i - 1] + frags[c[i]].len]
    BY <2>1
  <2> QED BY <1>2, <2>2
<1>5. total = [i \in 0 .. Len(c) |-> IF i = 0 THEN 0 ELSE total[i - 1] + frags[c[i]].len]
  BY <1>4
<1> HIDE DEF total
<1>6. \A i \in 0 .. n : total[i] = SumAt(L, total, i)
  <2>1. ASSUME NEW i \in 0 .. n PROVE total[i] = SumAt(L, total, i)
    <3>1. i = 0 \/ i \in 1 .. n
      BY <1>0
    <3>2. total[i] = IF i = 0 THEN 0 ELSE total[i - 1] + frags[c[i]].len
      BY <1>2, <1>5
    <3> QED BY <1>2, <3>1, <3>2 DEF SumAt
  <2> QED BY <2>1
<1> DEFINE B == {i \in 0 .. n : total[i] # d[i]}
<1>7. ASSUME B # {} PROVE FALSE
  <2>1. PICK k \in B : \A j \in B : k <= j
    <3>1. B \subseteq Nat
      BY <1>0
    <3> HIDE DEF B
    <3> QED BY <1>7, <3>1, SmallestIn
  <2>2. k \in 0 .. n /\ total[k] # d[k] /\ total[k] = SumAt(L, total, k) /\ d[k] = SumAt(L, d, k)
    BY <1>3, <1>6
  <2>3. CASE k = 0
    BY <2>2, <2>3 DEF SumAt
  <2>4. CASE k # 0
    <3>1. k - 1 \in 0 .. n /\ ~(k <= k - 1)
      BY <1>0, <2>2, <2>4
    <3>2. total[k - 1] = d[k - 1]
      BY <2>1, <3>1
    <3> QED BY <2>2, <2>4, <3>2 DEF SumAt
  <2> QED BY <2>3, <2>4
<1>8. total[n] = d[n]
  BY <1>0, <1>7
<1> QED BY <1>1, <1>2, <1>3, <1>8

LEMMA LinesType ==
  ASSUME NEW h, NEW f \in Seq(Line)
  PROVE  LinesOf(f, h) \in Seq(Line)
<1>1. PICK d \in [0 .. Len(f) -> Seq(Line)] : ListsOf(h, f, Len(f), d) /\ LinesOf(f, h) = d[Len(f)]
  BY LinesIs
<1>2. Len(f) \in 0 .. Len(f)
  OBVIOUS
<1> QED BY <1>1, <1>2

LEMMA UpwardsIs ==
  ASSUME HeadersInv
  PROVE  Upwards
<1>1. TableIn(frag_index, frags, data)
  BY InvParts
<1>2. \A k \in 1 .. Len(frags) : frags[k].next = 0 \/ frags[k].next \in k + 1 .. Len(frags)
  BY <1>1, FragmentIs
<1> QED BY <1>1, <1>2 DEF Upwards, TableIn

(* When the headers are complete, the table holds what was sent. *)
LEMMA ReadBack ==
  ASSUME HeadersInv, CollectInv
  PROVE  HeadersCollected
<1> SUFFICES ASSUME parser_state = "PARSING_COMPLETE", NEW h \in Headers, Sent(h) # <<>>,
                    ~Untrimmed(Sent(h)[1][2])
             PROVE  lws_hdr_copy(h) = Joined(h) /\ lws_hdr_total_length(h) = Len(Joined(h))
  BY DEF HeadersCollected
<1>1. PICK ls \in Seq(Line), C \in [Headers -> Seq(Nat)] :
        /\ Table(ls, C, frag_index, frags, data, parser_state)
        /\ Placed(ls, C, frags, data, parser_state, lextable_pos, input, lines)
  BY DEF CollectInv
<1>2. parser_state \notin Headers /\ parser_state # h
  BY HeadersAssumption
<1>3. lines = ls
  BY <1>1, <1>2 DEF Placed, AtName, AtLine, AtValue, AtSkip, AtCR, AtEnds, AtComplete
<1> DEFINE v == LinesOf(ls, h)
           n == Len(v)
           c == C[h]
<1>4. Sent(h) = v
  BY <1>3, SentLines
<1>5. v \in Seq(Line) /\ n \in Nat /\ n # 0
  <2>1. v \in Seq(Line)
    BY LinesType
  <2>2. v # <<>>
    BY <1>4
  <2> HIDE DEF v
  <2> QED BY <2>1, <2>2
<1>6. Len(c) = n /\ c \in Seq(Nat)
  <2>1. h \notin ClientTokens
    BY <1>1, <1>4 DEF Table, Counts
  <2>2. Len(c) = n + 0
    BY <1>1, <1>2, <2>1 DEF Table, Counts
  <2> QED BY <1>5, <2>2
<1>7. Chain(frag_index[h]) = c
  BY <1>1, UpwardsIs, ChainOf DEF Table
<1>8. HoldsOf(frags, data, h, c, v)
  BY <1>1 DEF Table, Collected
<1>9. \A i \in 1 .. Len(c) : c[i] \in 1 .. Len(frags)
  BY <1>1 DEF Table, Linked
<1>10. Joined(h) = FlattenSeq([i \in 1 .. n |-> Piece(h, v, i)])
  BY <1>4 DEF Joined
<1>11. ~Untrimmed(v[1][2])
  BY <1>4
<1> HIDE DEF v, n, c
<1>12. ASSUME NEW i \in 1 .. n
       PROVE  /\ FragText(c[i]) = Piece(h, v, i) /\ Piece(h, v, i) \in Seq({"x", SP})
              /\ frags[c[i]].len = Len(Piece(h, v, i))
  <2>1. Done(frags, data, c[i], Piece(h, v, i))
    BY <1>8, <1>11 DEF HoldsOf, n
  <2>2. TableIn(frag_index, frags, data)
    BY InvParts
  <2>3. data \in Seq(Chars \cup {NUL}) /\ frags[c[i]].offset \in Nat
    BY <1>6, <1>9, <2>2, FragmentIs DEF TableIn
  <2>4. FragText(c[i]) = Piece(h, v, i)
    BY <2>1, <2>3, TextIs
  <2> QED BY <2>1, <2>4 DEF Done
<1> DEFINE s == [i \in 1 .. n |-> Piece(h, v, i)]
<1>13. s \in Seq(Seq({"x", SP})) /\ Len(s) = n /\ \A i \in 1 .. n : s[i] = Piece(h, v, i)
  BY <1>5, <1>12
<1>14. lws_hdr_copy(h) = FlattenSeq(s)
  <2>1. DOMAIN c = 1 .. n
    BY <1>6
  <2>2. [i \in DOMAIN c |-> FragText(c[i])] = s
    BY <1>12, <2>1
  <2>3. lws_hdr_copy(h) = FlattenSeq([i \in DOMAIN c |-> FragText(c[i])])
    BY <1>7 DEF lws_hdr_copy
  <2> QED BY <2>2, <2>3
<1> HIDE DEF s
<1>15. lws_hdr_total_length(h) = Len(FlattenSeq(s))
  <2>1. Len(s) # 0 /\ Len(Chain(frag_index[h])) = Len(s)
    BY <1>5, <1>6, <1>7, <1>13
  <2>2. \A i \in 1 .. Len(s) : frags[Chain(frag_index[h])[i]].len = Len(s[i])
    BY <1>7, <1>12, <1>13
  <2> QED BY <1>13, <2>1, <2>2, TotalIs
<1>16. Joined(h) = FlattenSeq(s)
  BY <1>10 DEF s
<1> QED BY <1>14, <1>15, <1>16

---------------------------------------------------------------------------
(* How the table changes *)

(* e is d, or d and more. *)
GrownTo(d, e) == Len(d) \in Nat /\ Len(e) \in Nat /\ Len(e) >= Len(d) /\ \A i \in 1 .. Len(d) : e[i] = d[i]

LEMMA GrownBy ==
  ASSUME NEW T, NEW d \in Seq(T), NEW x \in T
  PROVE  GrownTo(d, Append(d, x)) /\ GrownTo(d, d)
BY AppendAt DEF GrownTo

(* The k-th fragment is where it was. *)
Stays(f, g, k) == g[k].offset = f[k].offset /\ g[k].len = f[k].len

LEMMA DoneKept ==
  ASSUME NEW f, NEW g, NEW d, NEW e, NEW k, NEW t, Done(f, d, k, t), Stays(f, g, k), GrownTo(d, e),
         f[k].offset \in Nat
  PROVE  Done(g, e, k, t)
<1> DEFINE o == f[k].offset
<1>1. /\ t \in Seq({"x", SP}) /\ f[k].len = Len(t) /\ o + Len(t) < Len(d) /\ Len(t) \in Nat /\ o \in Nat
      /\ \A i \in 1 .. Len(t) : d[o + i] = t[i]
      /\ d[o + Len(t) + 1] = NUL
  BY DEF Done
<1>2. g[k].offset = o /\ g[k].len = Len(t)
  BY <1>1 DEF Stays
<1>3. Len(d) \in Nat /\ Len(e) \in Nat /\ Len(e) >= Len(d) /\ \A i \in 1 .. Len(d) : e[i] = d[i]
  BY DEF GrownTo
<1> HIDE DEF o
<1>4. ASSUME NEW i \in 1 .. Len(t) PROVE e[o + i] = t[i]
  <2>1. o + i \in 1 .. Len(d)
    BY <1>1, <1>3
  <2>2. e[o + i] = d[o + i] /\ d[o + i] = t[i]
    BY <1>1, <1>3, <2>1
  <2> QED BY <2>2
<1>5. e[o + Len(t) + 1] = NUL
  <2>1. o + Len(t) + 1 \in 1 .. Len(d)
    BY <1>1, <1>3
  <2> QED BY <1>1, <1>3, <2>1
<1>6. o + Len(t) < Len(e)
  BY <1>1, <1>3
<1> QED BY <1>1, <1>2, <1>4, <1>5, <1>6 DEF Done

LEMMA CollectedKept ==
  ASSUME NEW f \in Seq(Fragments), NEW g, NEW d, NEW e, NEW C, NEW D, NEW ls, Collected(f, d, C, ls), GrownTo(d, e),
         \A h \in Headers : \A i \in 1 .. Len(LinesOf(ls, h)) :
           D[h][i] = C[h][i] /\ C[h][i] \in 1 .. Len(f) /\ Stays(f, g, C[h][i])
  PROVE  Collected(g, e, D, ls)
<1> SUFFICES ASSUME NEW h \in Headers PROVE HoldsOf(g, e, h, D[h], LinesOf(ls, h))
  BY DEF Collected
<1> DEFINE v == LinesOf(ls, h)
<1>1. HoldsOf(f, d, h, C[h], v)
  BY DEF Collected
<1>2. \A i \in 1 .. Len(v) : D[h][i] = C[h][i] /\ C[h][i] \in 1 .. Len(f) /\ Stays(f, g, C[h][i])
  OBVIOUS
<1> HIDE DEF v
<1> SUFFICES ASSUME NEW i \in 1 .. Len(v), i = 1 \/ ~Untrimmed(v[1][2])
             PROVE  Done(g, e, D[h][i], Piece(h, v, i))
  BY DEF HoldsOf, v
<1>3. Done(f, d, C[h][i], Piece(h, v, i))
  BY <1>1 DEF HoldsOf
<1>4. D[h][i] = C[h][i] /\ C[h][i] \in 1 .. Len(f) /\ Stays(f, g, C[h][i])
  BY <1>2
<1>5. f[C[h][i]].offset \in Nat
  <2>1. ASSUME NEW k \in 1 .. Len(f) PROVE f[k].offset \in Nat
    <3>1. f[k] \in Fragments
      OBVIOUS
    <3> QED BY <3>1 DEF Fragments
  <2> QED BY <1>4, <2>1
<1>6. Done(g, e, C[h][i], Piece(h, v, i))
  BY <1>3, <1>4, <1>5, DoneKept
<1> QED BY <1>4, <1>6

(* The fragments' links are as they were. *)
LEMMA LinkedSame ==
  ASSUME NEW f, NEW g, NEW fi, NEW C, Linked(fi, f, C), Len(g) = Len(f),
         \A k \in 1 .. Len(f) : g[k].next = f[k].next
  PROVE  Linked(fi, g, C)
BY ZenonT(60) DEF Linked

(* A header without a chain. *)
LEMMA NoChain ==
  ASSUME NEW f \in Seq(Fragments), NEW fi, NEW C \in [Headers -> Seq(Nat)], Linked(fi, f, C), NEW h \in Headers
  PROVE  fi[h] = 0 <=> C[h] = <<>>
<1>1. fi[h] = IF C[h] = <<>> THEN 0 ELSE C[h][1]
  BY DEF Linked
<1>2. C[h] # <<>> => 1 \in 1 .. Len(C[h])
  <2>1. C[h] \in Seq(Nat)
    OBVIOUS
  <2> QED BY <2>1
<1>3. C[h] # <<>> => C[h][1] \in 1 .. Len(f)
  BY <1>2 DEF Linked
<1> QED BY <1>1, <1>3

LEMMA LinkedFirst ==
  ASSUME NEW f \in Seq(Fragments), NEW fi \in [Headers -> Nat], NEW C \in [Headers -> Seq(Nat)], Linked(fi, f, C),
         NEW h \in Headers, NEW g, Len(g) = Len(f) + 1,
         \A k \in 1 .. Len(f) : g[k].next = f[k].next, g[Len(f) + 1].next = 0
  PROVE  Linked([fi EXCEPT ![h] = Len(f) + 1], g, [C EXCEPT ![h] = <<Len(f) + 1>>])
<1> DEFINE fj == [fi EXCEPT ![h] = Len(f) + 1]
           D == [C EXCEPT ![h] = <<Len(f) + 1>>]
           n == Len(f) + 1
<1>0. Len(f) \in Nat /\ n \in Nat
  OBVIOUS
<1>1. /\ fj[h] = n /\ D[h] = <<n>> /\ \A a \in Headers : a # h => fj[a] = fi[a] /\ D[a] = C[a]
      /\ D[h] # <<>> /\ Len(D[h]) = 1 /\ D[h][1] = n
  OBVIOUS
<1>2. \A a \in Headers : \A i \in 1 .. Len(C[a]) :
        /\ C[a][i] \in 1 .. Len(f) /\ C[a][i] # n
        /\ f[C[a][i]].next = (IF i = Len(C[a]) THEN 0 ELSE C[a][i + 1])
  <2>1. \A a \in Headers : \A i \in 1 .. Len(C[a]) :
        /\ C[a][i] \in 1 .. Len(f)
        /\ f[C[a][i]].next = (IF i = Len(C[a]) THEN 0 ELSE C[a][i + 1])
    BY DEF Linked
  <2>2. \A k \in 1 .. Len(f) : k # n
    BY <1>0
  <2> HIDE DEF n
  <2> QED BY <2>1, <2>2
<1> HIDE DEF fj, D
<1>3. ASSUME NEW a \in Headers PROVE fj[a] = IF D[a] = <<>> THEN 0 ELSE D[a][1]
  <2>1. CASE a = h
    BY <1>1, <2>1
  <2>2. CASE a # h
    BY <1>1, <2>2 DEF Linked
  <2> QED BY <2>1, <2>2
<1>4. ASSUME NEW a \in Headers, NEW i \in 1 .. Len(D[a])
      PROVE  D[a][i] \in 1 .. Len(g) /\ g[D[a][i]].next = (IF i = Len(D[a]) THEN 0 ELSE D[a][i + 1])
  <2>1. CASE a = h
    <3>1. Len(D[a]) = 1 /\ D[a][1] = n
      BY <1>1, <2>1
    <3>2. i = 1 /\ n \in 1 .. Len(g)
      BY <1>0, <3>1
    <3> QED BY <3>1, <3>2
  <2>2. CASE a # h
    <3>1. D[a] = C[a] /\ i \in 1 .. Len(C[a])
      BY <1>1, <2>2
    <3>2. C[a][i] \in 1 .. Len(f) /\ f[C[a][i]].next = (IF i = Len(C[a]) THEN 0 ELSE C[a][i + 1])
      BY <1>2, <3>1
    <3>3. C[a][i] \in 1 .. Len(g)
      BY <1>0, <3>2, SMTT(60)
    <3> QED BY <3>1, <3>2, <3>3
  <2> QED BY <2>1, <2>2
<1>5. ASSUME NEW a \in Headers, NEW b \in Headers, NEW i \in 1 .. Len(D[a]), NEW j \in 1 .. Len(D[b]), D[a][i] = D[b][j]
      PROVE  a = b /\ i = j
  <2>1. CASE a # h /\ b # h
    <3>1. D[a] = C[a] /\ D[b] = C[b]
      BY <1>1, <2>1
    <3> QED BY <1>5, <3>1 DEF Linked
  <2>2. CASE a = h /\ b # h
    <3>1. D[b] = C[b] /\ D[a][i] = n
      BY <1>1, <2>2, SMTT(60)
    <3> QED BY <1>2, <1>5, <3>1
  <2>3. CASE a # h /\ b = h
    <3>1. D[a] = C[a] /\ D[b][j] = n
      BY <1>1, <2>3, SMTT(60)
    <3> QED BY <1>2, <1>5, <3>1
  <2>4. CASE a = h /\ b = h
    <3>1. Len(D[a]) = 1 /\ Len(D[b]) = 1
      BY <1>1, <2>4
    <3>2. i = 1 /\ j = 1
      BY <3>1
    <3> QED BY <2>4, <3>2
  <2> QED BY <2>1, <2>2, <2>3, <2>4
<1>6. Linked(fj, g, D)
  BY <1>3, <1>4, <1>5 DEF Linked
<1> QED BY <1>6 DEF fj, D

LEMMA LinkedNext ==
  ASSUME NEW f \in Seq(Fragments), NEW fi, NEW C \in [Headers -> Seq(Nat)], Linked(fi, f, C),
         NEW h \in Headers, C[h] # <<>>, NEW g, Len(g) = Len(f) + 1,
         \A k \in 1 .. Len(f) : g[k].next = (IF k = C[h][Len(C[h])] THEN Len(f) + 1 ELSE f[k].next),
         g[Len(f) + 1].next = 0
  PROVE  Linked(fi, g, [C EXCEPT ![h] = Append(C[h], Len(f) + 1)])
<1> DEFINE D == [C EXCEPT ![h] = Append(C[h], Len(f) + 1)]
           n == Len(f) + 1
           m == Len(C[h])
           l == C[h][m]
<1>0. Len(f) \in Nat /\ n \in Nat /\ m \in Nat /\ m # 0 /\ m \in 1 .. m
  <2>1. C[h] \in Seq(Nat)
    OBVIOUS
  <2> QED BY <2>1
<1>1. /\ \A a \in Headers : a # h => D[a] = C[a]
      /\ D[h] # <<>> /\ Len(D[h]) = m + 1 /\ D[h][m + 1] = n
      /\ \A i \in 1 .. m : D[h][i] = C[h][i]
  <2>1. C[h] \in Seq(Nat) /\ n \in Nat
    BY <1>0
  <2>2. D[h] = Append(C[h], n) /\ \A a \in Headers : a # h => D[a] = C[a]
    OBVIOUS
  <2>3. /\ Len(Append(C[h], n)) = m + 1
        /\ \A i \in 1 .. m : Append(C[h], n)[i] = C[h][i]
        /\ Append(C[h], n)[m + 1] = n
    BY <2>1, AppendAt
  <2>4. Append(C[h], n) # <<>>
    BY <2>1, SMTT(60)
  <2> QED BY <2>2, <2>3, <2>4
<1>2. \A a \in Headers : \A i \in 1 .. Len(C[a]) :
        /\ C[a][i] \in 1 .. Len(f) /\ C[a][i] # n
        /\ f[C[a][i]].next = (IF i = Len(C[a]) THEN 0 ELSE C[a][i + 1])
        /\ C[a][i] = l => a = h /\ i = m
  <2>1. \A a \in Headers : \A i \in 1 .. Len(C[a]) :
        /\ C[a][i] \in 1 .. Len(f)
        /\ f[C[a][i]].next = (IF i = Len(C[a]) THEN 0 ELSE C[a][i + 1])
    BY DEF Linked
  <2>2. \A k \in 1 .. Len(f) : k # n
    BY <1>0
  <2>3. \A a \in Headers : \A i \in 1 .. Len(C[a]) : C[a][i] = l => a = h /\ i = m
    BY <1>0 DEF Linked
  <2> HIDE DEF n, m, l
  <2> QED BY <2>1, <2>2, <2>3
<1>3. ASSUME NEW a \in Headers PROVE fi[a] = IF D[a] = <<>> THEN 0 ELSE D[a][1]
  <2>1. fi[a] = IF C[a] = <<>> THEN 0 ELSE C[a][1]
    BY DEF Linked
  <2>2. CASE a = h
    <3>1. D[h][1] = C[h][1] /\ D[h] # <<>>
      BY <1>0, <1>1
    <3> QED BY <2>1, <2>2, <3>1
  <2>3. CASE a # h
    BY <1>1, <2>1, <2>3
  <2> QED BY <2>2, <2>3
<1>7. \A k \in 1 .. Len(f) : g[k].next = (IF k = l THEN n ELSE f[k].next)
  OBVIOUS
<1>8. Len(g) = n /\ n \in 1 .. n /\ g[n].next = 0 /\ \A k \in 1 .. Len(f) : k \in 1 .. n
  BY <1>0
<1> HIDE DEF D, l, n
<1>4. ASSUME NEW a \in Headers, NEW i \in 1 .. Len(D[a])
      PROVE  D[a][i] \in 1 .. n /\ g[D[a][i]].next = (IF i = Len(D[a]) THEN 0 ELSE D[a][i + 1])
  <2>1. CASE a = h /\ i = m + 1
    BY <1>1, <1>8, <2>1
  <2>2. CASE a = h /\ i = m
    <3>1. m # m + 1 /\ m \in 1 .. Len(C[h])
      BY <1>0
    <3>2. D[h][m] = l /\ l \in 1 .. Len(f) /\ D[h][m + 1] = n
      BY <1>0, <1>1, <1>2, <3>1 DEF l
    <3>3. g[l].next = n /\ l \in 1 .. n
      BY <1>7, <1>8, <3>2
    <3> HIDE DEF m
    <3> QED BY <1>1, <2>2, <3>1, <3>2, <3>3
  <2>3. CASE a = h /\ i # m + 1 /\ i # m
    <3>1. i \in 1 .. m /\ i + 1 \in 1 .. m /\ i \in 1 .. Len(C[h])
      BY <1>0, <1>1, <2>3, SMTT(60)
    <3>2. D[h][i] = C[h][i] /\ D[h][i + 1] = C[h][i + 1]
      BY <1>1, <3>1
    <3>3. C[h][i] \in 1 .. Len(f) /\ C[h][i] # l /\ f[C[h][i]].next = C[h][i + 1]
      BY <1>2, <2>3, <3>1
    <3>4. g[C[h][i]].next = C[h][i + 1] /\ C[h][i] \in 1 .. n
      BY <1>7, <1>8, <3>3
    <3> QED BY <1>1, <2>3, <3>2, <3>4
  <2>4. CASE a # h
    <3>1. D[a] = C[a] /\ i \in 1 .. Len(C[a])
      BY <1>1, <2>4
    <3>2. C[a][i] \in 1 .. Len(f) /\ f[C[a][i]].next = (IF i = Len(C[a]) THEN 0 ELSE C[a][i + 1]) /\ C[a][i] # l
      BY <1>2, <2>4, <3>1
    <3>3. g[C[a][i]].next = f[C[a][i]].next /\ C[a][i] \in 1 .. n
      BY <1>7, <1>8, <3>2
    <3> QED BY <3>1, <3>2, <3>3
  <2> QED BY <2>1, <2>2, <2>3, <2>4
<1>5. ASSUME NEW a \in Headers, NEW b \in Headers, NEW i \in 1 .. Len(D[a]), NEW j \in 1 .. Len(D[b]), D[a][i] = D[b][j]
      PROVE  a = b /\ i = j
  <2>1. \A x \in Headers : \A k \in 1 .. Len(D[x]) :
          \/ x = h /\ k = m + 1 /\ D[x][k] = n
          \/ k \in 1 .. Len(C[x]) /\ D[x][k] = C[x][k] /\ D[x][k] # n
    <3> SUFFICES ASSUME NEW x \in Headers, NEW k \in 1 .. Len(D[x])
                 PROVE  \/ x = h /\ k = m + 1 /\ D[x][k] = n
                        \/ k \in 1 .. Len(C[x]) /\ D[x][k] = C[x][k] /\ D[x][k] # n
      OBVIOUS
    <3>1. CASE x = h /\ k = m + 1
      BY <1>1, <3>1
    <3>2. CASE x = h /\ k # m + 1
      <4>1. k \in 1 .. m
        BY <1>0, <1>1, <3>2
      <4>2. k \in 1 .. Len(C[x]) /\ D[x][k] = C[x][k]
        BY <1>1, <3>2, <4>1
      <4> QED BY <1>2, <4>2, SMTT(60)
    <3>3. CASE x # h
      <4>1. D[x] = C[x]
        BY <1>1, <3>3
      <4> QED BY <1>2, <4>1, SMTT(60)
    <3> QED BY <3>1, <3>2, <3>3
  <2>2. CASE D[a][i] = n
    <3>1. a = h /\ i = m + 1
      BY <2>1, <2>2, ZenonT(60)
    <3>2. D[b][j] = n
      BY <1>5, <2>2
    <3>3. b = h /\ j = m + 1
      BY <2>1, <3>2, ZenonT(60)
    <3> QED BY <3>1, <3>3, Zenon
  <2>3. CASE D[a][i] # n
    <3>1. i \in 1 .. Len(C[a]) /\ D[a][i] = C[a][i] /\ j \in 1 .. Len(C[b]) /\ D[b][j] = C[b][j]
      BY <1>5, <2>1, <2>3
    <3>2. C[a][i] = C[b][j]
      BY <1>5, <3>1
    <3>3. \A p, q \in Headers : \A y \in 1 .. Len(C[p]), z \in 1 .. Len(C[q]) :
            C[p][y] = C[q][z] => p = q /\ y = z
      BY DEF Linked
    <3>4. i \in 1 .. Len(C[a]) /\ j \in 1 .. Len(C[b])
      BY <3>1
    <3>5. C[a][i] = C[b][j] => a = b /\ i = j
      BY <3>3, <3>4, SMTT(30)
    <3> QED BY <3>2, <3>5, Zenon
  <2> QED BY <2>2, <2>3
<1>6. Linked(fi, g, D)
  BY <1>3, <1>4, <1>5, <1>8, SMTT(60) DEF Linked
<1> QED BY <1>6 DEF D, n

---------------------------------------------------------------------------
(* The line being read *)

LEMMA DoneBy ==
  ASSUME NEW T, NUL \in T, NEW d \in Seq(T), NEW f, NEW k, f[k].offset \in Nat,
         NEW t \in Seq({"x", SP}), f[k].len = Len(t), f[k].offset + f[k].len = Len(d),
         \A i \in 1 .. Len(t) : d[f[k].offset + i] = t[i]
  PROVE  Done(f, Append(d, NUL), k, t)
<1> DEFINE o == f[k].offset
           e == Append(d, NUL)
<1>1. o \in Nat /\ Len(t) \in Nat /\ o + Len(t) = Len(d) /\ f[k].len = Len(t) /\ Len(d) \in Nat
  OBVIOUS
<1>2. \A i \in 1 .. Len(t) : d[o + i] = t[i]
  OBVIOUS
<1>3. Len(e) = Len(d) + 1 /\ (\A i \in 1 .. Len(d) : e[i] = d[i]) /\ e[Len(d) + 1] = NUL
  BY AppendAt
<1> HIDE DEF o, e
<1>4. ASSUME NEW i \in 1 .. Len(t) PROVE e[o + i] = t[i]
  <2>1. o + i \in 1 .. Len(d)
    BY <1>1
  <2> QED BY <1>2, <1>3, <2>1
<1>5. o + Len(t) < Len(e) /\ e[o + Len(t) + 1] = NUL
  <2>1. o + Len(t) + 1 = Len(d) + 1 /\ o + Len(t) < Len(e)
    BY <1>1, <1>3
  <2> QED BY <1>3, <2>1
<1> QED BY <1>1, <1>4, <1>5 DEF Done, o, e

(* A value of which j characters have been read, the rest being left out: the first of its *)
(* header.                                                                                   *)
LEMMA FirstPiece ==
  ASSUME NEW s \in Values, NEW j \in 0 .. Len(s), NEW f, NEW d, NEW h, NEW n \in 0 .. j, Began(f, d, h, s, j, n),
         j = Len(s) \/ (h = "GET_URI" /\ s[j + 1] = SP /\ f[Len(f)].len # 0),
         NEW v, v[1][2] = s
  PROVE  /\ Piece(h, v, 1) \in Seq({"x", SP}) /\ Len(Piece(h, v, 1)) = j - n
         /\ \A i \in 1 .. j - n : Piece(h, v, 1)[i] = s[n + i]
<1>0. Len(s) \in Nat /\ s \in Seq({"x", SP})
  BY ValueIs
<1>1. /\ f[Len(f)].len = j - n /\ \A i \in 1 .. n : s[i] = SP
      /\ j > n => s[n + 1] # SP
      /\ h = "GET_URI" => \A i \in 1 .. j - n : s[n + i] # SP
  BY DEF Began
<1>2. TrimAt(s, n)
  <2>1. n \in 0 .. Len(s)
    BY <1>0
  <2>2. n = Len(s) \/ s[n + 1] # SP
    <3>1. CASE j > n
      BY <1>1, <3>1
    <3>2. CASE j = n
      <4>1. f[Len(f)].len = 0
        BY <1>0, <1>1, <3>2
      <4> QED BY <3>2, <4>1
    <3> QED BY <1>0, <3>1, <3>2
  <2> QED BY <1>1, <2>1, <2>2 DEF TrimAt
<1> DEFINE t == Trimmed(s)
<1>3. /\ t \in Seq({"x", SP}) /\ Len(t) = Len(s) - n
      /\ \A i \in 1 .. Len(s) - n : t[i] = s[n + i]
  BY <1>2, TrimmedIs
<1>4. CASE h # "GET_URI"
  <2>1. Piece(h, v, 1) = t /\ j = Len(s)
    BY <1>4 DEF Piece
  <2> QED BY <1>3, <2>1
<1>5. CASE h = "GET_URI"
  <2>1. Piece(h, v, 1) = FirstWord(s)
    BY <1>5 DEF Piece
  <2> HIDE DEF t
  <2>2. j - n \in 0 .. Len(t)
    BY <1>0, <1>3
  <2>3. ASSUME NEW i \in 1 .. j - n PROVE t[i] # SP
    <3>1. i \in 1 .. Len(s) - n
      BY <1>0
    <3>2. t[i] = s[n + i]
      BY <1>3, <3>1
    <3> QED BY <1>1, <1>5, <3>2
  <2>4. j - n = Len(t) \/ t[(j - n) + 1] = SP
    <3>1. CASE j = Len(s)
      BY <1>3, <3>1
    <3>2. CASE j # Len(s)
      <4>1. s[j + 1] = SP
        BY <3>2
      <4>2. (j - n) + 1 \in 1 .. Len(s) - n /\ n + ((j - n) + 1) = j + 1
        BY <1>0, <3>2
      <4>3. t[(j - n) + 1] = s[n + ((j - n) + 1)]
        BY <1>3, <4>2
      <4> QED BY <4>1, <4>2, <4>3
    <3> QED BY <3>1, <3>2
  <2>5. CutAt(Trimmed(s), j - n)
    BY <2>2, <2>3, <2>4 DEF CutAt, t
  <2>6. /\ FirstWord(s) \in Seq({"x", SP}) /\ Len(FirstWord(s)) = j - n
        /\ \A i \in 1 .. j - n : FirstWord(s)[i] = s[n + i]
    BY <1>2, <2>5, FirstWordIs, ZenonT(60)
  <2> QED BY <2>1, <2>6
<1> QED BY <1>4, <1>5

(* The end of a value: its fragment holds what the line adds to the header. *)
LEMMA LineEnds ==
  ASSUME NEW fi, NEW f, NEW d, TableIn(fi, f, d), Len(f) # 0,
         NEW s \in Values, NEW j \in 0 .. Len(s), NEW h, NEW c, NEW v \in Seq(Line), Len(c) = Len(v) + 1,
         InLine(f, d, h, c, v, s, j),
         j = Len(s) \/ (h = "GET_URI" /\ s[j + 1] = SP /\ f[Len(f)].len # 0),
         NEW l \in Line, l[2] = s, Len(v) = 0 \/ ~Untrimmed(v[1][2])
  PROVE  Done(f, Append(d, NUL), Len(f), Piece(h, Append(v, l), Len(v) + 1))
<1> DEFINE w == Append(v, l)
           k == Len(f)
           o == f[k].offset
<1>0. /\ Len(s) \in Nat /\ s \in Seq({"x", SP}) /\ Len(v) \in Nat
      /\ Len(w) = Len(v) + 1 /\ w[Len(v) + 1] = l /\ \A i \in 1 .. Len(v) : w[i] = v[i]
  BY ValueIs, AppendAt
<1>1. k \in 1 .. k /\ d \in Seq(Chars \cup {NUL}) /\ NUL \in Chars \cup {NUL}
  <2>1. f \in Seq(Fragments)
    BY DEF TableIn
  <2> QED BY <2>1 DEF TableIn
<1>2. o \in Nat /\ f[k].len \in Nat
  BY <1>1, FragmentIs
<1>3. o + f[k].len = Len(d)
  BY DEF InLine
<1> HIDE DEF w
<1>4. CASE Len(v) = 0
  <2>1. Len(c) = 1
    BY <1>4
  <2>2. PICK n \in 0 .. j : Began(f, d, h, s, j, n)
    BY <2>1 DEF InLine
  <2> DEFINE t == Piece(h, w, 1)
  <2>3. w[1][2] = s /\ Len(v) + 1 = 1
    BY <1>0, <1>4
  <2>4. t \in Seq({"x", SP}) /\ Len(t) = j - n /\ \A i \in 1 .. j - n : t[i] = s[n + i]
    BY <2>2, <2>3, FirstPiece
  <2> HIDE DEF t
  <2>5. f[k].len = Len(t) /\ \A i \in 1 .. Len(t) : d[o + i] = t[i]
    BY <2>2, <2>4 DEF Began
  <2>6. Done(f, Append(d, NUL), k, t)
    BY <1>1, <1>2, <1>3, <2>4, <2>5, DoneBy
  <2> QED BY <2>3, <2>6 DEF t, w
<1>5. CASE Len(v) # 0
  <2>1. Len(c) > 1 /\ Len(v) + 1 > 1
    BY <1>0, <1>5
  <2>2. h # "GET_URI" /\ GoesOn(f, d, s, j)
    BY <1>5, <2>1 DEF InLine
  <2>3. j = Len(s)
    BY <2>2
  <2> DEFINE p == <<SP>>
             t == p \o s
  <2>4. Piece(h, w, Len(v) + 1) = t
    BY <1>0, <2>1 DEF Piece
  <2>5. p \in Seq({"x", SP}) /\ Len(p) = 1 /\ p[1] = SP
    OBVIOUS
  <2> HIDE DEF p
  <2>6. /\ t \in Seq({"x", SP}) /\ Len(t) = Len(p) + Len(s)
        /\ \A i \in 1 .. Len(p) : t[i] = p[i]
        /\ \A i \in Len(p) + 1 .. Len(p) + Len(s) : t[i] = s[i - Len(p)]
    <3>1. p \in Seq({"x", SP}) /\ s \in Seq({"x", SP})
      BY <1>0, <2>5
    <3> QED BY <3>1, ConcatAt, ZenonT(60)
  <2> HIDE DEF t
  <2>7. /\ f[k].len = j + 1 /\ d[o + 1] = SP
        /\ \A i \in 1 .. j : d[o + 1 + i] = s[i]
    BY <2>2 DEF GoesOn
  <2>8. f[k].len = Len(t)
    BY <1>0, <2>3, <2>5, <2>6, <2>7
  <2>9. ASSUME NEW i \in 1 .. Len(t) PROVE d[o + i] = t[i]
    <3>1. CASE i = 1
      <4>1. 1 \in 1 .. Len(p)
        BY <2>5
      <4>2. t[1] = SP
        BY <2>5, <2>6, <4>1
      <4> QED BY <2>7, <3>1, <4>2
    <3>2. CASE i # 1
      <4>1. i \in Len(p) + 1 .. Len(p) + Len(s) /\ i - Len(p) \in 1 .. j /\ o + 1 + (i - Len(p)) = o + i
        BY <1>0, <1>2, <2>3, <2>5, <2>6, <3>2, SMTT(60)
      <4>2. t[i] = s[i - Len(p)]
        BY <2>6, <4>1
      <4>3. d[o + 1 + (i - Len(p))] = s[i - Len(p)]
        BY <2>7, <4>1
      <4> QED BY <4>1, <4>2, <4>3
    <3> QED BY <3>1, <3>2
  <2>10. Done(f, Append(d, NUL), k, t)
    BY <1>1, <1>2, <1>3, <2>6, <2>8, <2>9, DoneBy
  <2> QED BY <2>4, <2>10 DEF w
<1> QED BY <1>4, <1>5

(* A character more. *)
LEMMA LineMore ==
  ASSUME NEW fi, NEW f, NEW d, TableIn(fi, f, d), Len(f) # 0, NEW s \in Values, NEW j \in 0 .. Len(s), j # Len(s),
         NEW h, NEW c, NEW v, InLine(f, d, h, c, v, s, j), Len(c) \in Nat,
         h = "GET_URI" => s[j + 1] # SP, Len(c) = 1 /\ f[Len(f)].len = 0 => s[j + 1] # SP,
         NEW g, Len(g) = Len(f), g[Len(f)].len = f[Len(f)].len + 1, g[Len(f)].offset = f[Len(f)].offset
  PROVE  InLine(g, Append(d, s[j + 1]), h, c, v, s, j + 1)
<1> DEFINE k == Len(f)
           o == f[k].offset
           m == f[k].len
           e == Append(d, s[j + 1])
<1>0. Len(s) \in Nat /\ s[j + 1] \in {"x", SP} /\ j \in Nat
  <2>1. Len(s) \in Nat /\ \A i \in 1 .. Len(s) : s[i] \in {"x", SP}
    BY ValueIs
  <2>2. j + 1 \in 1 .. Len(s)
    BY <2>1
  <2> QED BY <2>1, <2>2
<1>1. k \in 1 .. k /\ d \in Seq(Chars \cup {NUL}) /\ Len(d) \in Nat
  <2>1. f \in Seq(Fragments)
    BY DEF TableIn
  <2> QED BY <2>1 DEF TableIn
<1>2. o \in Nat /\ m \in Nat
  BY <1>1, FragmentIs
<1>3. o + m = Len(d) /\ c[Len(c)] = k
  BY DEF InLine
<1>4. /\ Len(e) = Len(d) + 1 /\ (\A i \in 1 .. Len(d) : e[i] = d[i])
      /\ e[Len(d) + 1] = s[j + 1]
  <2>1. s[j + 1] \in Chars \cup {NUL}
    BY <1>0 DEF Chars
  <2> QED BY <1>1, <2>1, AppendAt
<1>5. Len(g) = k /\ g[k].len = m + 1 /\ g[k].offset = o
  OBVIOUS
<1> HIDE DEF e, o, m, k
<1>6. g[k].offset + g[k].len = Len(e)
  BY <1>1, <1>2, <1>3, <1>4, <1>5, SMTT(60)
<1>7. ASSUME Len(c) = 1 PROVE \E n \in 0 .. j + 1 : Began(g, e, h, s, j + 1, n)
  <2>1. PICK n \in 0 .. j : Began(f, d, h, s, j, n)
    BY <1>7 DEF InLine
  <2>2. /\ m = j - n /\ \A i \in 1 .. n : s[i] = SP
        /\ \A i \in 1 .. j - n : d[o + i] = s[n + i]
        /\ j > n => s[n + 1] # SP
        /\ h = "GET_URI" => \A i \in 1 .. j - n : s[n + i] # SP
    BY <2>1 DEF Began, o, m, k
  <2>3. m + 1 = (j + 1) - n /\ n \in 0 .. j + 1 /\ n \in Nat
    BY <1>0, <2>2
  <2>7. o + (j - n) = Len(d) /\ o \in Nat /\ Len(d) \in Nat /\ j \in Nat /\ n \in 0 .. j
    BY <1>0, <1>1, <1>2, <1>3, <2>2
  <2>4. ASSUME NEW i \in 1 .. (j + 1) - n
        PROVE  e[o + i] = s[n + i] /\ (h = "GET_URI" => s[n + i] # SP)
    <3>1. CASE i = (j - n) + 1
      <4>1. o + i = Len(d) + 1 /\ n + i = j + 1
        BY <2>7, <3>1, SMTT(60)
      <4> QED BY <1>4, <4>1
    <3>2. CASE i # (j - n) + 1
      <4>1. i \in 1 .. j - n /\ o + i \in 1 .. Len(d)
        BY <2>7, <3>2
      <4> QED BY <1>4, <2>2, <4>1
    <3> QED BY <3>1, <3>2
  <2>5. s[n + 1] # SP
    <3>1. CASE j > n
      BY <2>2, <3>1
    <3>2. CASE j = n
      <4>1. m = 0
        BY <1>0, <2>2, <3>2
      <4> QED BY <1>7, <3>2, <4>1 DEF m, k
    <3> QED BY <1>0, <3>1, <3>2
  <2>6. Began(g, e, h, s, j + 1, n)
    BY <1>5, <2>2, <2>3, <2>4, <2>5 DEF Began
  <2> QED BY <2>3, <2>6
<1>8. ASSUME Len(c) > 1, ~Untrimmed(v[1][2]) PROVE GoesOn(g, e, s, j + 1)
  <2>1. /\ m = j + 1 /\ d[o + 1] = SP
        /\ \A i \in 1 .. j : d[o + 1 + i] = s[i]
    BY <1>8 DEF InLine, GoesOn, o, m, k
  <2>2. m + 1 = (j + 1) + 1 /\ 1 <= m /\ o + 1 \in 1 .. Len(d)
    BY <1>0, <1>1, <1>2, <1>3, <2>1
  <2>3. e[o + 1] = SP
    BY <1>4, <2>1, <2>2
  <2>5. o + (j + 1) = Len(d) /\ o \in Nat /\ Len(d) \in Nat /\ j \in Nat
    BY <1>0, <1>1, <1>2, <1>3, <2>1
  <2>4. ASSUME NEW i \in 1 .. j + 1 PROVE e[o + 1 + i] = s[i]
    <3>1. CASE i = j + 1
      <4>1. o + 1 + i = Len(d) + 1
        BY <2>5, <3>1, SMTT(60)
      <4> QED BY <1>4, <3>1, <4>1
    <3>2. CASE i # j + 1
      <4>1. i \in 1 .. j /\ o + 1 + i \in 1 .. Len(d)
        BY <2>5, <3>2
      <4> QED BY <1>4, <2>1, <4>1
    <3> QED BY <3>1, <3>2
  <2> QED BY <1>5, <2>2, <2>3, <2>4 DEF GoesOn
<1>9. Len(c) > 1 => h # "GET_URI"
  BY DEF InLine
<1>10. InLine(g, e, h, c, v, s, j + 1)
  BY <1>3, <1>5, <1>6, <1>7, <1>8, <1>9 DEF InLine
<1> QED BY <1>10 DEF e

(* A space that is left out, of a header whose first fragment is empty. *)
LEMMA LineSkips ==
  ASSUME NEW f, NEW d, NEW s \in Values, NEW j \in 0 .. Len(s), j # Len(s), s[j + 1] = SP,
         NEW h, NEW c, NEW v, InLine(f, d, h, c, v, s, j),
         Len(c) = 1 => f[Len(f)].len = 0, Len(c) > 1 => Untrimmed(v[1][2])
  PROVE  InLine(f, d, h, c, v, s, j + 1)
<1>0. Len(s) \in Nat /\ j \in Nat
  BY ValueIs
<1>1. ASSUME Len(c) = 1 PROVE \E n \in 0 .. j + 1 : Began(f, d, h, s, j + 1, n)
  <2>1. PICK n \in 0 .. j : Began(f, d, h, s, j, n)
    BY <1>1 DEF InLine
  <2>2. f[Len(f)].len = j - n /\ f[Len(f)].len = 0 /\ \A i \in 1 .. n : s[i] = SP
    BY <1>1, <2>1 DEF Began
  <2>3. n = j /\ (j + 1) - (j + 1) = 0 /\ ~(j + 1 > j + 1) /\ j + 1 \in 0 .. j + 1
    BY <1>0, <2>2
  <2>4. \A i \in 1 .. j + 1 : s[i] = SP
    <3>1. \A i \in 1 .. j + 1 : i = j + 1 \/ i \in 1 .. n
      BY <1>0, <2>3
    <3> QED BY <2>2, <3>1
  <2>5. Began(f, d, h, s, j + 1, j + 1)
    BY <2>2, <2>3, <2>4 DEF Began
  <2> QED BY <2>3, <2>5
<1>2. Len(c) > 1 => h # "GET_URI" /\ Untrimmed(v[1][2])
  BY DEF InLine
<1>3. c[Len(c)] = Len(f) /\ f[Len(f)].offset + f[Len(f)].len = Len(d)
  BY DEF InLine
<1> QED BY <1>1, <1>2, <1>3 DEF InLine

---------------------------------------------------------------------------
(* The table after each of its changes *)

LEMMA StatesApart == States \cap Headers = {}
BY HeadersAssumption DEF States

(* The header a line belongs to, if any. *)
LEMMA TokenIs ==
  ASSUME NEW l \in Line
  PROVE  /\ TokenOf(l[1]) \notin ClientTokens
         /\ l[1] = Unknown => TokenOf(l[1]) \notin Headers
         /\ l[1] # Unknown => TokenOf(l[1]) \in Headers
         /\ TokenOf(l[1]) = "GET_URI" => l[1] = "GET_URI"
         /\ l[1] \notin {CR, LF, SP, "x"}
<1>1. l[1] \in Names
  BY LineIs
<1> QED BY <1>1, HeadersAssumption DEF Names, TokenOf, ClientTokens, Unknown, CR, LF, SP

(* The lines before, when the line being read is done. *)
LEMMA LinesAfter ==
  ASSUME NEW ls \in Seq(Line), NEW l \in Line, NEW h
  PROVE  /\ LinesOf(ls, h) \in Seq(Line) /\ Len(LinesOf(ls, h)) \in Nat
         /\ TokenOf(l[1]) # h => LinesOf(Append(ls, l), h) = LinesOf(ls, h)
         /\ TokenOf(l[1]) = h => LinesOf(Append(ls, l), h) = Append(LinesOf(ls, h), l)
<1>1. LinesOf(ls, h) \in Seq(Line) /\ LinesOf(Append(ls, l), h) = Listed(h, LinesOf(ls, h), l)
  BY LinesMore
<1>2. LinesOf(ls, h) \in Seq(Line) => Len(LinesOf(ls, h)) \in Nat
  OBVIOUS
<1> QED BY <1>1, <1>2 DEF Listed

(* A chain has a fragment for every line dealt with. *)
LEMMA ChainLong ==
  ASSUME NEW ls \in Seq(Line), NEW C \in [Headers -> Seq(Nat)], NEW fi, NEW f, NEW d, NEW ps,
         Table(ls, C, fi, f, d, ps), NEW h \in Headers, NEW i \in 1 .. Len(LinesOf(ls, h))
  PROVE  i \in 1 .. Len(C[h]) /\ C[h][i] \in 1 .. Len(f) /\ h \notin ClientTokens
         /\ (h = ps => i # Len(C[h]))
<1> DEFINE v == LinesOf(ls, h)
<1>1. v \in Seq(Line) /\ Len(v) \in Nat
  <2>1. v \in Seq(Line)
    BY LinesType
  <2> HIDE DEF v
  <2> QED BY <2>1
<1>2. h \notin ClientTokens
  <2>1. SUFFICES ASSUME h \in ClientTokens PROVE FALSE
    OBVIOUS
  <2>2. v = <<>>
    BY <2>1 DEF Table, Counts
  <2>3. Len(v) = 0 /\ i \in 1 .. Len(v)
    BY <2>2
  <2> HIDE DEF v
  <2> QED BY <2>3
<1>3. Len(C[h]) = Len(v) + (IF h = ps THEN 1 ELSE 0)
  BY <1>2 DEF Table, Counts
<1>4. i \in 1 .. Len(v)
  OBVIOUS
<1> HIDE DEF v
<1>5. i \in 1 .. Len(C[h]) /\ (h = ps => i # Len(C[h]))
  BY <1>1, <1>3, <1>4
<1>6. C[h][i] \in 1 .. Len(f)
  BY <1>5 DEF Table, Linked
<1> QED BY <1>2, <1>5, <1>6

LEMMA TableQuiet ==
  ASSUME NEW ls, NEW C, NEW fi, NEW f, NEW d, NEW ps, NEW qs, Table(ls, C, fi, f, d, ps),
         ps \notin Headers, qs \notin Headers
  PROVE  Table(ls, C, fi, f, d, qs)
<1>1. \A h \in Headers : h # ps /\ h # qs
  OBVIOUS
<1>2. Counts(C, ls, qs)
  BY <1>1 DEF Table, Counts
<1> QED BY <1>2 DEF Table

(* A line without a name of the table. *)
LEMMA TableSkips ==
  ASSUME NEW ls \in Seq(Line), NEW C, NEW fi, NEW f, NEW d, NEW ps, NEW qs, Table(ls, C, fi, f, d, ps),
         ps \notin Headers, qs \notin Headers, NEW l \in Line, l[1] = Unknown
  PROVE  Table(Append(ls, l), C, fi, f, d, qs)
<1>1. \A h \in Headers : LinesOf(Append(ls, l), h) = LinesOf(ls, h)
  BY TokenIs, LinesAfter
<1>2. Table(ls, C, fi, f, d, qs)
  BY TableQuiet
<1>3. Counts(C, Append(ls, l), qs)
  BY <1>1, <1>2 DEF Table, Counts
<1>4. Collected(f, d, C, Append(ls, l))
  BY <1>1, <1>2 DEF Table, Collected
<1> QED BY <1>2, <1>3, <1>4 DEF Table

(* The end of the line being read. *)
LEMMA TableEnds ==
  ASSUME NEW fi, NEW f, NEW d, TableIn(fi, f, d), Len(f) # 0, NEW ls \in Seq(Line), NEW C \in [Headers -> Seq(Nat)],
         NEW ps \in Headers, Table(ls, C, fi, f, d, ps), NEW l \in Line, TokenOf(l[1]) = ps,
         NEW j \in 0 .. Len(l[2]), InLine(f, d, ps, C[ps], LinesOf(ls, ps), l[2], j),
         j = Len(l[2]) \/ (ps = "GET_URI" /\ l[2][j + 1] = SP /\ f[Len(f)].len # 0),
         NEW qs, qs \notin Headers
  PROVE  Table(Append(ls, l), C, fi, f, Append(d, NUL), qs)
<1> DEFINE e == Append(d, NUL)
           v == LinesOf(ls, ps)
           w == Append(v, l)
           mr == Append(ls, l)
<1>1. /\ v \in Seq(Line) /\ Len(v) \in Nat /\ LinesOf(mr, ps) = w
      /\ \A h \in Headers : h # ps => LinesOf(mr, h) = LinesOf(ls, h)
  BY LinesAfter
<1>2. ps \notin ClientTokens /\ l[2] \in Values
  BY TokenIs, LineIs
<1>3. Len(C[ps]) = Len(v) + 1
  BY <1>2 DEF Table, Counts
<1>4. f \in Seq(Fragments) /\ d \in Seq(Chars \cup {NUL})
  BY DEF TableIn
<1>5. GrownTo(d, e)
  BY <1>4, GrownBy
<1>6. Collected(f, e, C, ls)
  <2>1. \A h \in Headers : \A i \in 1 .. Len(LinesOf(ls, h)) :
           C[h][i] = C[h][i] /\ C[h][i] \in 1 .. Len(f) /\ Stays(f, f, C[h][i])
    BY ChainLong DEF Stays
  <2>2. Collected(f, d, C, ls)
    BY DEF Table
  <2> QED BY <1>4, <1>5, <2>1, <2>2, CollectedKept
<1>7. Len(w) = Len(v) + 1 /\ w[Len(v) + 1] = l /\ \A i \in 1 .. Len(v) : w[i] = v[i]
  BY <1>1, AppendAt
<1>8. Len(v) = 0 \/ ~Untrimmed(v[1][2]) => Done(f, e, Len(f), Piece(ps, w, Len(v) + 1))
  BY <1>1, <1>2, <1>3, LineEnds
<1>9. C[ps][Len(v) + 1] = Len(f)
  BY <1>3 DEF InLine
<1>10. HoldsOf(f, e, ps, C[ps], v)
  BY <1>6 DEF Collected
<1> HIDE DEF e, v, w, mr
<1>11. HoldsOf(f, e, ps, C[ps], w)
  <2> SUFFICES ASSUME NEW i \in 1 .. Len(w), i = 1 \/ ~Untrimmed(w[1][2])
               PROVE  Done(f, e, C[ps][i], Piece(ps, w, i))
    BY DEF HoldsOf
  <2>1. CASE i = Len(v) + 1
    <3>1. Len(v) = 0 \/ ~Untrimmed(v[1][2])
      <4>1. Len(v) # 0 => 1 \in 1 .. Len(v) /\ i # 1
        BY <1>1, <2>1
      <4>2. Len(v) # 0 => w[1] = v[1]
        BY <1>7, <4>1
      <4> QED BY <4>1, <4>2
    <3>2. Done(f, e, Len(f), Piece(ps, w, Len(v) + 1))
      BY <1>8, <3>1
    <3> QED BY <1>9, <2>1, <3>2
  <2>2. CASE i # Len(v) + 1
    <3>1. i \in 1 .. Len(v) /\ 1 \in 1 .. Len(v)
      BY <1>1, <1>7, <2>2
    <3>2. w[i] = v[i] /\ w[1] = v[1]
      BY <1>7, <3>1
    <3>3. Piece(ps, w, i) = Piece(ps, v, i)
      BY <3>2 DEF Piece
    <3>4. Done(f, e, C[ps][i], Piece(ps, v, i))
      BY <1>10, <3>1, <3>2 DEF HoldsOf
    <3> QED BY <3>3, <3>4
  <2> QED BY <2>1, <2>2
<1>12. Collected(f, e, C, mr)
  <2> SUFFICES ASSUME NEW h \in Headers PROVE HoldsOf(f, e, h, C[h], LinesOf(mr, h))
    BY DEF Collected
  <2>1. CASE h = ps
    BY <1>1, <1>11, <2>1
  <2>2. CASE h # ps
    BY <1>1, <1>6, <2>2 DEF Collected
  <2> QED BY <2>1, <2>2
<1>13. Counts(C, mr, qs)
  <2> SUFFICES ASSUME NEW h \in Headers
               PROVE  /\ h \in ClientTokens => LinesOf(mr, h) = <<>>
                      /\ h \notin ClientTokens => Len(C[h]) = Len(LinesOf(mr, h)) + (IF h = qs THEN 1 ELSE 0)
    BY DEF Counts
  <2>0. h # qs
    OBVIOUS
  <2>1. CASE h = ps
    <3>1. Len(C[ps]) = Len(LinesOf(mr, ps)) + 0
      BY <1>1, <1>3, <1>7
    <3> QED BY <1>2, <2>0, <2>1, <3>1
  <2>2. CASE h # ps
    BY <1>1, <2>0, <2>2 DEF Table, Counts
  <2> QED BY <2>1, <2>2
<1>14. Table(mr, C, fi, f, e, qs)
  BY <1>12, <1>13 DEF Table
<1> QED BY <1>14 DEF mr, e

(* A character of the line being read. *)
LEMMA TableCounts ==
  ASSUME NEW fi, NEW f, NEW d, TableIn(fi, f, d), NEW ls \in Seq(Line), NEW C \in [Headers -> Seq(Nat)],
         NEW ps \in Headers, ps \notin ClientTokens, Table(ls, C, fi, f, d, ps), C[ps][Len(C[ps])] = Len(f),
         NEW e, GrownTo(d, e), NEW g, Len(g) = Len(f),
         \A k \in 1 .. Len(f) : g[k].next = f[k].next /\ (k # Len(f) => Stays(f, g, k))
  PROVE  Table(ls, C, fi, g, e, ps)
<1>1. f \in Seq(Fragments)
  BY DEF TableIn
<1>2. Linked(fi, g, C)
  BY LinkedSame DEF Table
<1>3. ASSUME NEW h \in Headers, NEW i \in 1 .. Len(LinesOf(ls, h))
      PROVE  C[h][i] = C[h][i] /\ C[h][i] \in 1 .. Len(f) /\ Stays(f, g, C[h][i])
  <2>1. i \in 1 .. Len(C[h]) /\ C[h][i] \in 1 .. Len(f) /\ (h = ps => i # Len(C[h]))
    BY ChainLong
  <2>2. C[h][i] # Len(f)
    <3>1. Len(C[ps]) \in 1 .. Len(C[ps])
      <4>1. Len(LinesOf(ls, ps)) \in Nat
        BY LinesType
      <4>2. Len(C[ps]) = Len(LinesOf(ls, ps)) + 1
        BY DEF Table, Counts
      <4> QED BY <4>1, <4>2
    <3>2. C[h][i] = C[ps][Len(C[ps])] => h = ps /\ i = Len(C[ps])
      BY <2>1, <3>1, SMTT(60) DEF Table, Linked
    <3> QED BY <2>1, <3>2
  <2> QED BY <2>1, <2>2
<1>4. Collected(f, d, C, ls)
  BY DEF Table
<1>5. Collected(g, e, C, ls)
  BY <1>1, <1>3, <1>4, CollectedKept
<1> QED BY <1>2, <1>5 DEF Table

(* The table with a chain more, and with a chain that is one longer. *)
BegunIn(ls, D, fi, f, g, e, h, qs) ==
  /\ D \in [Headers -> Seq(Nat)] /\ Len(D[h]) = 1 /\ D[h][1] = Len(f) + 1
  /\ Table(ls, D, [fi EXCEPT ![h] = Len(f) + 1], g, e, qs)

ContinuedIn(ls, D, fi, f, g, e, h) ==
  /\ D \in [Headers -> Seq(Nat)] /\ Len(D[h]) \in Nat /\ Len(D[h]) > 1 /\ D[h][Len(D[h])] = Len(f) + 1
  /\ Table(ls, D, fi, g, e, h)

(* The first fragment of a header: of the client's own, or of the line being read. *)
LEMMA TableFirst ==
  ASSUME NEW fi, NEW f, NEW d, TableIn(fi, f, d), NEW ls \in Seq(Line), NEW C \in [Headers -> Seq(Nat)],
         NEW ps, ps \notin Headers, Table(ls, C, fi, f, d, ps), NEW h \in Headers, fi[h] = 0,
         NEW e, GrownTo(d, e), NEW g, Len(g) = Len(f) + 1,
         \A k \in 1 .. Len(f) : g[k] = f[k], g[Len(f) + 1].next = 0,
         NEW qs, (h \in ClientTokens /\ qs \notin Headers) \/ (h \notin ClientTokens /\ qs = h)
  PROVE  \E D : BegunIn(ls, D, fi, f, g, e, h, qs)
<1> DEFINE D == [C EXCEPT ![h] = <<Len(f) + 1>>]
           fj == [fi EXCEPT ![h] = Len(f) + 1]
<1>1. f \in Seq(Fragments) /\ fi \in [Headers -> Nat] /\ Len(f) \in Nat
  BY DEF TableIn
<1>2. Linked(fj, g, D)
  BY <1>1, LinkedFirst DEF Table
<1>3. /\ D \in [Headers -> Seq(Nat)] /\ Len(D[h]) = 1 /\ D[h][1] = Len(f) + 1
      /\ \A a \in Headers : a # h => D[a] = C[a]
  <2>1. <<Len(f) + 1>> \in Seq(Nat) /\ Len(<<Len(f) + 1>>) = 1
    BY <1>1
  <2> QED BY <2>1
<1> HIDE DEF D, fj
<1>4. LinesOf(ls, h) = <<>>
  <2>1. C[h] = <<>>
    BY <1>1, NoChain DEF Table
  <2>2. CASE h \in ClientTokens
    BY <2>2 DEF Table, Counts
  <2>3. CASE h \notin ClientTokens
    <3>1. Len(C[h]) = Len(LinesOf(ls, h)) + 0
      BY <2>3 DEF Table, Counts
    <3>2. LinesOf(ls, h) \in Seq(Line)
      BY LinesType
    <3> QED BY <2>1, <3>1, <3>2
  <2> QED BY <2>2, <2>3
<1>5. Counts(D, ls, qs)
  <2> SUFFICES ASSUME NEW a \in Headers
               PROVE  /\ a \in ClientTokens => LinesOf(ls, a) = <<>>
                      /\ a \notin ClientTokens => Len(D[a]) = Len(LinesOf(ls, a)) + (IF a = qs THEN 1 ELSE 0)
    BY DEF Counts
  <2>1. CASE a = h
    <3>1. a \notin ClientTokens => a = qs
      BY <2>1
    <3>2. Len(LinesOf(ls, a)) = 0 /\ Len(D[a]) = 1
      BY <1>3, <1>4, <2>1
    <3> QED BY <1>4, <2>1, <3>1, <3>2
  <2>2. CASE a # h
    <3>1. a # qs /\ a # ps /\ D[a] = C[a]
      BY <1>3, <2>2
    <3> QED BY <3>1 DEF Table, Counts
  <2> QED BY <2>1, <2>2
<1>6. Collected(g, e, D, ls)
  <2>1. ASSUME NEW a \in Headers, NEW i \in 1 .. Len(LinesOf(ls, a))
        PROVE  D[a][i] = C[a][i] /\ C[a][i] \in 1 .. Len(f) /\ Stays(f, g, C[a][i])
    <3>1. a # h
      BY <1>4
    <3>2. C[a][i] \in 1 .. Len(f)
      BY ChainLong
    <3> QED BY <1>3, <3>1, <3>2 DEF Stays
  <2>2. Collected(f, d, C, ls)
    BY DEF Table
  <2> QED BY <1>1, <2>1, <2>2, CollectedKept
<1>7. Table(ls, D, fj, g, e, qs)
  BY <1>2, <1>5, <1>6 DEF Table
<1>8. BegunIn(ls, D, fi, f, g, e, h, qs)
  BY <1>3, <1>7 DEF fj, BegunIn
<1> QED BY <1>8

(* One fragment more of a header, for the line being read. *)
LEMMA TableNext ==
  ASSUME NEW fi, NEW f, NEW d, TableIn(fi, f, d), NEW ls \in Seq(Line), NEW C \in [Headers -> Seq(Nat)],
         NEW ps, ps \notin Headers, Table(ls, C, fi, f, d, ps), NEW h \in Headers, C[h] # <<>>, h \notin ClientTokens,
         NEW e, GrownTo(d, e), NEW g, Len(g) = Len(f) + 1,
         \A k \in 1 .. Len(f) :
           Stays(f, g, k) /\ g[k].next = (IF k = C[h][Len(C[h])] THEN Len(f) + 1 ELSE f[k].next),
         g[Len(f) + 1].next = 0
  PROVE  \E D : ContinuedIn(ls, D, fi, f, g, e, h)
<1> DEFINE D == [C EXCEPT ![h] = Append(C[h], Len(f) + 1)]
           m == Len(C[h])
<1>1. f \in Seq(Fragments) /\ Len(f) \in Nat
  BY DEF TableIn
<1>2. Linked(fi, g, D)
  BY <1>1, LinkedNext DEF Table
<1>3. C[h] \in Seq(Nat) /\ m \in Nat /\ m # 0
  <2>1. C[h] \in Seq(Nat)
    OBVIOUS
  <2> QED BY <2>1
<1>4. /\ D \in [Headers -> Seq(Nat)] /\ Len(D[h]) = m + 1 /\ D[h][m + 1] = Len(f) + 1
      /\ \A i \in 1 .. m : D[h][i] = C[h][i]
      /\ \A a \in Headers : a # h => D[a] = C[a]
  <2>1. Len(f) + 1 \in Nat
    BY <1>1
  <2>2. /\ Append(C[h], Len(f) + 1) \in Seq(Nat) /\ Len(Append(C[h], Len(f) + 1)) = m + 1
        /\ \A i \in 1 .. m : Append(C[h], Len(f) + 1)[i] = C[h][i]
        /\ Append(C[h], Len(f) + 1)[m + 1] = Len(f) + 1
    BY <1>3, <2>1, AppendAt
  <2>3. D[h] = Append(C[h], Len(f) + 1) /\ \A a \in Headers : a # h => D[a] = C[a]
    OBVIOUS
  <2>4. D \in [Headers -> Seq(Nat)]
    BY <2>2
  <2> HIDE DEF D
  <2> QED BY <2>2, <2>3, <2>4
<1> HIDE DEF D
<1>5. m = Len(LinesOf(ls, h))
  <2>1. h # ps
    OBVIOUS
  <2>2. m = Len(LinesOf(ls, h)) + 0
    BY <2>1 DEF Table, Counts
  <2>3. LinesOf(ls, h) \in Seq(Line)
    BY LinesType
  <2> QED BY <2>2, <2>3
<1>6. Counts(D, ls, h)
  <2> SUFFICES ASSUME NEW a \in Headers
               PROVE  /\ a \in ClientTokens => LinesOf(ls, a) = <<>>
                      /\ a \notin ClientTokens => Len(D[a]) = Len(LinesOf(ls, a)) + (IF a = h THEN 1 ELSE 0)
    BY DEF Counts
  <2>1. CASE a = h
    <3>1. Len(D[h]) = Len(LinesOf(ls, h)) + 1
      BY <1>4, <1>5
    <3> QED BY <2>1, <3>1
  <2>2. CASE a # h
    <3>1. a # ps /\ D[a] = C[a]
      BY <1>4, <2>2
    <3> QED BY <2>2, <3>1 DEF Table, Counts
  <2> QED BY <2>1, <2>2
<1>7. Collected(g, e, D, ls)
  <2>1. ASSUME NEW a \in Headers, NEW i \in 1 .. Len(LinesOf(ls, a))
        PROVE  D[a][i] = C[a][i] /\ C[a][i] \in 1 .. Len(f) /\ Stays(f, g, C[a][i])
    <3>1. C[a][i] \in 1 .. Len(f)
      BY ChainLong
    <3>2. D[a][i] = C[a][i]
      <4>1. CASE a = h
        <5>1. i \in 1 .. m
          BY <1>5, <4>1
        <5> QED BY <1>4, <4>1, <5>1
      <4>2. CASE a # h
        BY <1>4, <4>2
      <4> QED BY <4>1, <4>2
    <3> QED BY <3>1, <3>2
  <2>2. Collected(f, d, C, ls)
    BY DEF Table
  <2> QED BY <1>1, <2>1, <2>2, CollectedKept
<1>8. Table(ls, D, fi, g, e, h)
  BY <1>2, <1>6, <1>7 DEF Table
<1>9. Len(D[h]) \in Nat /\ Len(D[h]) > 1 /\ D[h][Len(D[h])] = Len(f) + 1
  BY <1>3, <1>4
<1>10. ContinuedIn(ls, D, fi, f, g, e, h)
  BY <1>4, <1>8, <1>9 DEF ContinuedIn
<1> QED BY <1>10

---------------------------------------------------------------------------
(* The steps of the parser and its peer *)

LEMMA Drops ==
  ASSUME dropped' = TRUE, parser_state' # "PARSING_COMPLETE"
  PROVE  CollectInv'
BY DEF CollectInv

LEMMA GoesOnFrom ==
  ASSUME dropped' = FALSE, NEW ls \in Seq(Line), NEW C \in [Headers -> Seq(Nat)],
         Table(ls, C, frag_index', frags', data', parser_state'),
         Placed(ls, C, frags', data', parser_state', lextable_pos', input', lines')
  PROVE  CollectInv'
BY DEF CollectInv

(* The parser is before a name. *)
LEMMA BeforeName ==
  ASSUME NEW ls, NEW C, Placed(ls, C, frags, data, parser_state, lextable_pos, input, lines),
         parser_state = "NAME_PART"
  PROVE  \/ AtName(ls, parser_state, lextable_pos, input, lines)
         \/ AtLine(ls, parser_state, lextable_pos, input, lines)
         \/ AtEnds(ls, parser_state, lextable_pos, input, lines)
BY HeadersAssumption DEF Placed, AtValue, AtSkip, AtCR, AtComplete

LEMMA CollectInit == Init => CollectInv
<1> SUFFICES ASSUME Init PROVE CollectInv
  OBVIOUS
<1> DEFINE C == [h \in Headers |-> <<>>]
<1>1. /\ frags = <<>> /\ data = <<>> /\ frag_index = [h \in Headers |-> 0] /\ dropped = FALSE
      /\ lines = <<>> /\ input = <<>> /\ parser_state = "NAME_PART" /\ lextable_pos = 0
  BY DEF Init
<1>2. <<>> \in Seq(Line) /\ C \in [Headers -> Seq(Nat)] /\ \A h \in Headers : C[h] = <<>> /\ Len(C[h]) = 0
  OBVIOUS
<1>3. \A h \in Headers : frag_index[h] = 0
  BY <1>1
<1> HIDE DEF C
<1>4. \A h \in Headers : LinesOf(<<>>, h) = <<>>
  BY LinesNone
<1>5. Linked(frag_index, frags, C)
  BY <1>2, <1>3 DEF Linked
<1>6. parser_state \notin Headers
  BY <1>1, HeadersAssumption
<1>7. Counts(C, <<>>, parser_state)
  <2>1. \A h \in Headers : h # parser_state /\ Len(LinesOf(<<>>, h)) = 0
    BY <1>4, <1>6
  <2> QED BY <1>2, <1>4, <2>1 DEF Counts
<1>8. Collected(frags, data, C, <<>>)
  BY <1>4 DEF Collected, HoldsOf
<1>9. Placed(<<>>, C, frags, data, parser_state, lextable_pos, input, lines)
  BY <1>1 DEF Placed, AtName
<1> QED BY <1>1, <1>2, <1>5, <1>7, <1>8, <1>9 DEF CollectInv, Table

(* The steps that leave the table alone and are in no value. *)
LEMMA QuietCollect ==
  ASSUME NEW ls \in Seq(Line), NEW C \in [Headers -> Seq(Nat)],
         Table(ls, C, frag_index, frags, data, parser_state), UNCHANGED tableVars, dropped' = FALSE,
         parser_state \notin Headers, parser_state' \notin Headers,
         Placed(ls, C, frags, data, parser_state', lextable_pos', input', lines')
  PROVE  CollectInv'
<1>1. frag_index' = frag_index /\ frags' = frags /\ data' = data
  BY DEF tableVars
<1>2. Table(ls, C, frag_index, frags, data, parser_state')
  BY TableQuiet
<1> QED BY <1>1, <1>2, GoesOnFrom

LEMMA SendLineCollect ==
  ASSUME CollectInv, dropped \in BOOLEAN, NEW name \in Names, NEW value \in Values, SendLine(name, value)
  PROVE  CollectInv'
<1>1. /\ input = <<>> /\ dropped = FALSE /\ parser_state = "NAME_PART" /\ lines' = Append(lines, <<name, value>>)
      /\ input' = <<name>> \o value \o <<CR, LF>>
      /\ parser_state' = parser_state /\ lextable_pos' = lextable_pos /\ dropped' = FALSE /\ UNCHANGED tableVars
  BY DEF SendLine
<1>2. PICK ls \in Seq(Line), C \in [Headers -> Seq(Nat)] :
        /\ Table(ls, C, frag_index, frags, data, parser_state)
        /\ Placed(ls, C, frags, data, parser_state, lextable_pos, input, lines)
  BY <1>1 DEF CollectInv
<1>3. lextable_pos = 0 /\ lines = ls
  <2>1. input # <<CR, LF>> /\ input # <<LF>>
    BY <1>1
  <2> QED BY <1>1, <1>2, <2>1, BeforeName DEF AtName, AtLine, AtEnds
<1> DEFINE l == <<name, value>>
           T == Names \cup {"x", SP, CR, LF}
           a == <<name>>
           b == <<CR, LF>>
           i == (a \o value) \o b
<1>4. l \in Line /\ l[1] = name /\ l[2] = value
  BY DEF Line
<1>5. value \in Seq(T) /\ a \in Seq(T) /\ b \in Seq(T) /\ Len(a) = 1 /\ Len(b) = 2 /\ Len(value) \in Nat
      /\ a[1] = name /\ b[1] = CR /\ b[2] = LF
  BY ValueIs
<1>6. LeftOf(value, 0) \in Seq(T) /\ Len(LeftOf(value, 0)) = Len(value) + 2
      /\ (\A k \in 1 .. Len(value) : LeftOf(value, 0)[k] = value[k])
      /\ LeftOf(value, 0)[Len(value) + 1] = CR /\ LeftOf(value, 0)[Len(value) + 2] = LF
  <2>1. 0 \in 0 .. Len(value) /\ Len(value) - 0 = Len(value) /\ \A k \in 1 .. Len(value) : 0 + k = k
    BY <1>5
  <2>2. /\ LeftOf(value, 0) \in Seq({"x", SP, CR, LF}) /\ Len(LeftOf(value, 0)) = (Len(value) - 0) + 2
        /\ \A k \in 1 .. Len(value) - 0 : LeftOf(value, 0)[k] = value[0 + k]
        /\ LeftOf(value, 0)[(Len(value) - 0) + 1] = CR /\ LeftOf(value, 0)[(Len(value) - 0) + 2] = LF
    BY <2>1, LeftAt
  <2>3. LeftOf(value, 0) \in Seq(T)
    BY <2>2
  <2> HIDE DEF T
  <2> QED BY <2>1, <2>2, <2>3
<1> HIDE DEF T, a, b
<1> DEFINE p == a \o value
<1>7. /\ p \in Seq(T) /\ Len(p) = Len(a) + Len(value)
      /\ \A k \in 1 .. Len(a) : p[k] = a[k]
      /\ \A k \in Len(a) + 1 .. Len(a) + Len(value) : p[k] = value[k - Len(a)]
  <2>1. a \in Seq(T) /\ value \in Seq(T)
    BY <1>5
  <2> QED BY <2>1, ConcatAt, ZenonT(60)
<1> HIDE DEF p
<1>8. /\ i \in Seq(T) /\ Len(i) = Len(p) + Len(b)
      /\ \A k \in 1 .. Len(p) : i[k] = p[k]
      /\ \A k \in Len(p) + 1 .. Len(p) + Len(b) : i[k] = b[k - Len(p)]
  <2>1. p \in Seq(T) /\ b \in Seq(T) /\ i = p \o b
    BY <1>5, <1>7 DEF p
  <2> HIDE DEF i
  <2>2. /\ p \o b \in Seq(T) /\ Len(p \o b) = Len(p) + Len(b)
        /\ \A k \in 1 .. Len(p) : (p \o b)[k] = p[k]
        /\ \A k \in Len(p) + 1 .. Len(p) + Len(b) : (p \o b)[k] = b[k - Len(p)]
    BY <2>1, ConcatAt, ZenonT(60)
  <2> QED BY <2>1, <2>2
<1> HIDE DEF i
<1>9. Len(p) = Len(value) + 1 /\ Len(i) = Len(value) + 3 /\ i # <<>>
  BY <1>5, <1>7, <1>8
<1>10. /\ Tail(i) \in Seq(T) /\ Len(Tail(i)) = Len(i) - 1
       /\ \A k \in 1 .. Len(i) - 1 : Tail(i)[k] = i[k + 1]
       /\ Head(i) = i[1]
  BY <1>8, <1>9, TailAt
<1>11. Head(i) = name
  <2>1. 1 \in 1 .. Len(a) /\ 1 \in 1 .. Len(p)
    BY <1>5, <1>9
  <2> QED BY <1>5, <1>7, <1>8, <1>10, <2>1
<1>12. Tail(i) = LeftOf(value, 0)
  <2>1. Len(Tail(i)) = Len(LeftOf(value, 0))
    BY <1>5, <1>6, <1>9, <1>10
  <2>2. ASSUME NEW k \in 1 .. Len(Tail(i)) PROVE Tail(i)[k] = LeftOf(value, 0)[k]
    <3>1. k \in 1 .. Len(i) - 1 /\ k \in 1 .. Len(value) + 2
      BY <1>5, <1>9, <1>10
    <3>2. Tail(i)[k] = i[k + 1]
      BY <1>10, <3>1
    <3>3. CASE k \in 1 .. Len(value)
      <4>1. k + 1 \in 1 .. Len(p) /\ k + 1 \in Len(a) + 1 .. Len(a) + Len(value) /\ (k + 1) - Len(a) = k
        BY <1>5, <1>9, <3>3
      <4>2. i[k + 1] = p[k + 1]
        BY <1>8, <4>1
      <4>3. p[k + 1] = value[(k + 1) - Len(a)]
        BY <1>7, <4>1
      <4>4. LeftOf(value, 0)[k] = value[k]
        BY <1>6, <3>3
      <4> QED BY <3>2, <4>1, <4>2, <4>3, <4>4
    <3>4. CASE k = Len(value) + 1
      <4>1. k + 1 \in Len(p) + 1 .. Len(p) + Len(b) /\ (k + 1) - Len(p) = 1
        BY <1>5, <1>9, <3>4
      <4>2. i[k + 1] = b[(k + 1) - Len(p)]
        BY <1>8, <4>1
      <4> QED BY <1>5, <1>6, <3>2, <3>4, <4>1, <4>2
    <3>5. CASE k = Len(value) + 2
      <4>1. k + 1 \in Len(p) + 1 .. Len(p) + Len(b) /\ (k + 1) - Len(p) = 2
        BY <1>5, <1>9, <3>5
      <4>2. i[k + 1] = b[(k + 1) - Len(p)]
        BY <1>8, <4>1
      <4> QED BY <1>5, <1>6, <3>2, <3>5, <4>1, <4>2
    <3>6. k \in 1 .. Len(value) \/ k = Len(value) + 1 \/ k = Len(value) + 2
      BY <1>5, <3>1
    <3> QED BY <3>3, <3>4, <3>5, <3>6
  <2>3. Tail(i) \in Seq(T) /\ LeftOf(value, 0) \in Seq(T)
    BY <1>6, <1>10
  <2> QED BY <2>1, <2>2, <2>3, SameSeq
<1>13. input' = i
  BY <1>1 DEF i, a, b
<1>14. lines' = Append(ls, l)
  BY <1>1, <1>3
<1> HIDE DEF l
<1>15. AtLine(ls, parser_state', lextable_pos', input', lines')
  <2>1. input' # <<>> /\ Head(input') = l[1] /\ Tail(input') = LeftOf(l[2], 0)
    BY <1>4, <1>9, <1>11, <1>12, <1>13
  <2> QED BY <1>1, <1>3, <1>4, <1>14, <2>1 DEF AtLine
<1>16. Placed(ls, C, frags, data, parser_state', lextable_pos', input', lines')
  BY <1>15 DEF Placed
<1>17. parser_state \notin Headers
  BY <1>1, HeadersAssumption
<1> QED BY <1>1, <1>2, <1>16, <1>17, QuietCollect

LEMMA SendEndCollect ==
  ASSUME CollectInv, dropped \in BOOLEAN, SendEnd
  PROVE  CollectInv'
<1>1. /\ input = <<>> /\ dropped = FALSE /\ parser_state = "NAME_PART" /\ lines' = lines /\ lines # <<>>
      /\ input' = <<CR, LF>>
      /\ parser_state' = parser_state /\ lextable_pos' = lextable_pos /\ dropped' = FALSE /\ UNCHANGED tableVars
  BY DEF SendEnd
<1>2. PICK ls \in Seq(Line), C \in [Headers -> Seq(Nat)] :
        /\ Table(ls, C, frag_index, frags, data, parser_state)
        /\ Placed(ls, C, frags, data, parser_state, lextable_pos, input, lines)
  BY <1>1 DEF CollectInv
<1>3. lextable_pos = 0 /\ lines = ls
  <2>1. input # <<CR, LF>> /\ input # <<LF>>
    BY <1>1
  <2> QED BY <1>1, <1>2, <2>1, BeforeName DEF AtName, AtLine, AtEnds
<1>4. Placed(ls, C, frags, data, parser_state', lextable_pos', input', lines')
  BY <1>1, <1>3 DEF Placed, AtEnds
<1>5. parser_state \notin Headers
  BY <1>1, HeadersAssumption
<1> QED BY <1>1, <1>2, <1>4, <1>5, QuietCollect

(* Behind the headers. *)
LEMMA CompleteCollect ==
  ASSUME CollectInv, dropped = FALSE, dropped' = FALSE, parser_state = "PARSING_COMPLETE",
         parser_state' = parser_state, lines' = lines, UNCHANGED tableVars
  PROVE  CollectInv'
<1>2. PICK ls \in Seq(Line), C \in [Headers -> Seq(Nat)] :
        /\ Table(ls, C, frag_index, frags, data, parser_state)
        /\ Placed(ls, C, frags, data, parser_state, lextable_pos, input, lines)
  BY DEF CollectInv
<1>3. parser_state \notin Headers
  BY HeadersAssumption
<1>4. AtComplete(ls, parser_state, lines)
  BY <1>2, <1>3 DEF Placed, AtName, AtLine, AtValue, AtSkip, AtCR, AtEnds
<1>5. Placed(ls, C, frags, data, parser_state', lextable_pos', input', lines')
  BY <1>4 DEF Placed, AtComplete
<1> QED BY <1>2, <1>3, <1>5, QuietCollect

LEMMA NameCRCollect ==
  ASSUME CollectInv, dropped \in BOOLEAN, NameCR
  PROVE  CollectInv'
<1>1. /\ dropped = FALSE /\ parser_state = "NAME_PART" /\ lines' = lines /\ lextable_pos = 0
      /\ input # <<>> /\ Head(input) = CR /\ input' = Tail(input)
      /\ parser_state' = parser_state /\ lextable_pos' = 1 /\ dropped' = FALSE /\ UNCHANGED tableVars
  BY DEF NameCR, Parsed
<1>2. PICK ls \in Seq(Line), C \in [Headers -> Seq(Nat)] :
        /\ Table(ls, C, frag_index, frags, data, parser_state)
        /\ Placed(ls, C, frags, data, parser_state, lextable_pos, input, lines)
  BY <1>1 DEF CollectInv
<1>3. ~AtLine(ls, parser_state, lextable_pos, input, lines)
  BY <1>1, TokenIs DEF AtLine
<1>4. AtEnds(ls, parser_state, lextable_pos, input, lines)
  BY <1>1, <1>2, <1>3, BeforeName DEF AtName
<1>5. input = <<CR, LF>> /\ lines = ls /\ ls # <<>>
  BY <1>1, <1>4 DEF AtEnds
<1>6. input' = <<LF>>
  BY <1>1, <1>5
<1>7. Placed(ls, C, frags, data, parser_state', lextable_pos', input', lines')
  BY <1>1, <1>5, <1>6 DEF Placed, AtEnds
<1>8. parser_state \notin Headers
  BY <1>1, HeadersAssumption
<1> QED BY <1>1, <1>2, <1>7, <1>8, QuietCollect

LEMMA EndCollect ==
  ASSUME CollectInv, dropped \in BOOLEAN, Complete
  PROVE  CollectInv'
<1>1. /\ dropped = FALSE /\ parser_state = "NAME_PART" /\ lines' = lines /\ lextable_pos = 1
      /\ parser_state' = "PARSING_COMPLETE" /\ dropped' = FALSE /\ UNCHANGED tableVars
  BY DEF Complete, Parsed
<1>2. PICK ls \in Seq(Line), C \in [Headers -> Seq(Nat)] :
        /\ Table(ls, C, frag_index, frags, data, parser_state)
        /\ Placed(ls, C, frags, data, parser_state, lextable_pos, input, lines)
  BY <1>1 DEF CollectInv
<1>3. lines = ls /\ ls # <<>>
  BY <1>1, <1>2, BeforeName DEF AtName, AtLine, AtEnds
<1>7. Placed(ls, C, frags, data, parser_state', lextable_pos', input', lines')
  BY <1>1, <1>3 DEF Placed, AtComplete
<1>8. parser_state \notin Headers /\ parser_state' \notin Headers
  BY <1>1, HeadersAssumption
<1> QED BY <1>1, <1>2, <1>7, <1>8, QuietCollect

LEMMA SkipCollect ==
  ASSUME CollectInv, dropped \in BOOLEAN, NEW x \in Chars, Skip(x)
  PROVE  CollectInv'
<1>1. /\ dropped = FALSE /\ parser_state \in {"SKIPPING", "SKIPPING_SAW_CR"} /\ lines' = lines
      /\ input # <<>> /\ Head(input) = x /\ input' = Tail(input)
      /\ dropped' = FALSE /\ UNCHANGED tableVars
  BY DEF Skip, Parsed
<1>2. PICK ls \in Seq(Line), C \in [Headers -> Seq(Nat)] :
        /\ Table(ls, C, frag_index, frags, data, parser_state)
        /\ Placed(ls, C, frags, data, parser_state, lextable_pos, input, lines)
  BY <1>1 DEF CollectInv
<1>3. parser_state \notin Headers /\ parser_state' \notin Headers
  BY <1>1, HeadersAssumption DEF Skip
<1>4. AtSkip(ls, parser_state, input, lines) \/ AtCR(ls, parser_state, input, lines)
  BY <1>1, <1>2, <1>3 DEF Placed, AtName, AtLine, AtValue, AtEnds, AtComplete
<1>5. Placed(ls, C, frags, data, parser_state', lextable_pos', input', lines')
  <2>1. CASE AtSkip(ls, parser_state, input, lines)
    <3>1. PICK s \in Values : \E j \in 0 .. Len(s) : input = LeftOf(s, j)
      BY <2>1 DEF AtSkip
    <3>0. PICK j \in 0 .. Len(s) : input = LeftOf(s, j)
      BY <3>1
    <3>2. parser_state = "SKIPPING" /\ lines = ls /\ ls # <<>>
      BY <2>1 DEF AtSkip
    <3>3. parser_state' = (IF x = CR THEN "SKIPPING_SAW_CR" ELSE "SKIPPING")
      BY <3>2 DEF Skip
    <3>4. CASE j = Len(s)
      <4>1. x = CR /\ input' = <<LF>>
        BY <1>1, <3>0, <3>4, LeftEnd
      <4> QED BY <1>1, <3>2, <3>3, <4>1 DEF Placed, AtCR
    <3>5. CASE j # Len(s)
      <4>1. x \in {"x", SP} /\ input' = LeftOf(s, j + 1) /\ j + 1 \in 0 .. Len(s)
        BY <1>1, <3>0, <3>5, LeftMore
      <4>2. x # CR
        BY <4>1 DEF CR, SP
      <4>3. AtSkip(ls, parser_state', input', lines')
        BY <1>1, <3>2, <3>3, <4>1, <4>2 DEF AtSkip
      <4> QED BY <4>3 DEF Placed
    <3> QED BY <3>4, <3>5
  <2>2. CASE AtCR(ls, parser_state, input, lines)
    <3>1. parser_state = "SKIPPING_SAW_CR" /\ lines = ls /\ input = <<LF>>
      BY <2>2 DEF AtCR
    <3>2. x = LF /\ input' = <<>>
      BY <1>1, <3>1
    <3>3. parser_state' = "NAME_PART" /\ lextable_pos' = 0
      BY <3>1, <3>2 DEF Skip
    <3> QED BY <1>1, <3>1, <3>2, <3>3 DEF Placed, AtName
  <2> QED BY <1>4, <2>1, <2>2
<1> QED BY <1>1, <1>2, <1>3, <1>5, QuietCollect

LEMMA UnknownCollect ==
  ASSUME CollectInv, dropped \in BOOLEAN, UnknownName
  PROVE  CollectInv'
<1>1. /\ dropped = FALSE /\ parser_state = "NAME_PART" /\ lines' = lines
      /\ input # <<>> /\ Head(input) = Unknown /\ input' = Tail(input) /\ UNCHANGED tableVars
      /\ \/ parser_state' = "SKIPPING" /\ dropped' = FALSE
         \/ parser_state' = "NAME_PART" /\ dropped' = TRUE
  BY DEF UnknownName, Parsed, Drop
<1>2. PICK ls \in Seq(Line), C \in [Headers -> Seq(Nat)] :
        /\ Table(ls, C, frag_index, frags, data, parser_state)
        /\ Placed(ls, C, frags, data, parser_state, lextable_pos, input, lines)
  BY <1>1 DEF CollectInv
<1>3. CASE dropped' = TRUE
  BY <1>1, <1>3, Drops
<1>4. CASE parser_state' = "SKIPPING" /\ dropped' = FALSE
  <2>1. ~AtEnds(ls, parser_state, lextable_pos, input, lines)
    <3>1. Head(<<CR, LF>>) # Unknown /\ Head(<<LF>>) # Unknown
      BY DEF CR, LF, Unknown
    <3> QED BY <1>1, <3>1 DEF AtEnds
  <2>2. AtLine(ls, parser_state, lextable_pos, input, lines)
    BY <1>1, <1>2, <2>1, BeforeName DEF AtName
  <2>3. PICK l \in Line : lines = Append(ls, l) /\ Head(input) = l[1] /\ Tail(input) = LeftOf(l[2], 0)
    BY <2>2 DEF AtLine
  <2>4. parser_state \notin Headers /\ parser_state' \notin Headers
    BY <1>1, <1>4, HeadersAssumption
  <2>5. Table(lines, C, frag_index, frags, data, parser_state')
    BY <1>1, <1>2, <2>3, <2>4, TableSkips
  <2>6. lines \in Seq(Line) /\ lines # <<>>
    BY <2>3
  <2>7. l[2] \in Values /\ 0 \in 0 .. Len(l[2])
    <3>1. l[2] \in Values
      BY LineIs
    <3> QED BY <3>1, ValueIs
  <2>8. AtSkip(lines, parser_state', input', lines')
    BY <1>1, <1>4, <2>3, <2>6, <2>7 DEF AtSkip
  <2>9. Placed(lines, C, frags, data, parser_state', lextable_pos', input', lines')
    BY <2>8 DEF Placed
  <2>10. frag_index' = frag_index /\ frags' = frags /\ data' = data
    BY <1>1 DEF tableVars
  <2> QED BY <1>4, <2>5, <2>6, <2>9, <2>10, GoesOnFrom
<1> QED BY <1>1, <1>3, <1>4

LEMMA CreateCollect ==
  ASSUME HeadersInv, CollectInv, NEW h \in ClientTokens, Create(h, <<"x">>)
  PROVE  CollectInv'
<1>0. TableIn(frag_index, frags, data) /\ dropped \in BOOLEAN
  BY InvParts DEF HeadersInv, TableTypes
<1>1. /\ dropped = FALSE /\ lines = <<>> /\ frag_index[h] = 0 /\ lines' = lines /\ input' = input
      /\ parser_state' = parser_state /\ lextable_pos' = lextable_pos
  BY <1>0 DEF Create
<1>2. PICK ls \in Seq(Line), C \in [Headers -> Seq(Nat)] :
        /\ Table(ls, C, frag_index, frags, data, parser_state)
        /\ Placed(ls, C, frags, data, parser_state, lextable_pos, input, lines)
  BY <1>1 DEF CollectInv
<1>3. AtName(ls, parser_state, lextable_pos, input, lines)
  <2>1. \A l \in Line : Append(ls, l) # <<>>
    BY SMTT(60)
  <2> QED BY <1>1, <1>2, <2>1 DEF Placed, AtLine, AtValue, AtSkip, AtCR, AtEnds, AtComplete
<1>4. parser_state = "NAME_PART" /\ parser_state \notin Headers /\ h \in Headers
  BY <1>3, HeadersAssumption DEF AtName
<1>5. frags \in Seq(Fragments) /\ data \in Seq(Chars \cup {NUL}) /\ Len(data) \in Nat /\ Len(frags) \in Nat /\ DataSize \in Nat
  <2>1. DataSize \in Nat
    BY HeadersAssumption
  <2> QED BY <1>0, <2>1 DEF TableIn
<1>6. CASE dropped' = TRUE
  BY <1>1, <1>4, <1>6, Drops
<1>7. CASE dropped' # TRUE
  <2>1. Len(frags) + 1 # NFrags
    BY <1>7 DEF Create, next_frag_index
  <2> DEFINE s == <<"x">>
             room == DataSize - Len(data)
  <2>2. dropped' = (Len(s) >= room) /\ Len(s) = 1
    BY <2>1 DEF Create, next_frag_index, pos
  <2>3. 1 < room /\ dropped' = FALSE /\ Len(s) <= room /\ Len(s) < room
    <3>1. ~(Len(s) >= room)
      BY <1>7, <2>2, Zenon
    <3>2. dropped' \in BOOLEAN
      BY <2>2
    <3>3. dropped' = FALSE
      BY <1>7, <3>2
    <3> HIDE DEF s
    <3> QED BY <1>5, <2>2, <3>1, <3>3
  <2>4. /\ frag_index' = [frag_index EXCEPT ![h] = Len(frags) + 1]
        /\ frags' = Append(frags, [offset |-> Len(data), len |-> Len(s), next |-> 0])
        /\ data' = data \o Append(s, NUL)
    BY <2>1, <2>3 DEF Create, next_frag_index, pos
  <2>5. GrownTo(data, data')
    <3>1. Append(s, NUL) \in Seq(Chars \cup {NUL}) /\ Len(Append(s, NUL)) = 2
      BY DEF Chars
    <3> DEFINE q == Append(s, NUL)
    <3> HIDE DEF q
    <3>2. /\ data \o q \in Seq(Chars \cup {NUL}) /\ Len(data \o q) = Len(data) + Len(q)
          /\ \A i \in 1 .. Len(data) : (data \o q)[i] = data[i]
      <4>1. data \in Seq(Chars \cup {NUL}) /\ q \in Seq(Chars \cup {NUL})
        BY <1>5, <3>1 DEF q
      <4> QED BY <4>1, ConcatAt
    <3>3. data' = data \o q /\ Len(q) = 2
      BY <2>4, <3>1 DEF q
    <3> QED BY <1>5, <3>2, <3>3 DEF GrownTo
  <2> DEFINE r == [offset |-> Len(data), len |-> 1, next |-> 0]
  <2>6. /\ Len(frags') = Len(frags) + 1 /\ frags'[Len(frags) + 1].next = 0
        /\ \A k \in 1 .. Len(frags) : frags'[k] = frags[k]
    <3>1. r \in Fragments /\ r.next = 0
      BY <1>5 DEF Fragments
    <3>2. frags' = Append(frags, r)
      BY <2>2, <2>4
    <3> HIDE DEF r
    <3> QED BY <1>5, <3>1, <3>2, AppendAt
  <2>7. PICK D : BegunIn(ls, D, frag_index, frags, frags', data', h, parser_state)
    <3>1. (h \in ClientTokens /\ parser_state \notin Headers) \/ (h \notin ClientTokens /\ parser_state = h)
      BY <1>4
    <3>2. Table(ls, C, frag_index, frags, data, parser_state)
      BY <1>2
    <3> QED BY <1>0, <1>1, <1>4, <2>5, <2>6, <3>1, <3>2, TableFirst
  <2>8. Table(ls, D, frag_index', frags', data', parser_state')
    BY <1>1, <2>4, <2>7 DEF BegunIn
  <2>10. D \in [Headers -> Seq(Nat)]
    BY <2>7 DEF BegunIn
  <2>9. Placed(ls, D, frags', data', parser_state', lextable_pos', input', lines')
    BY <1>1, <1>3 DEF Placed, AtName
  <2> QED BY <2>3, <2>8, <2>9, <2>10, GoesOnFrom
<1> QED BY <1>6, <1>7

(* The parser is in a value. *)
LEMMA InAValue ==
  ASSUME HeadersInv, CollectInv, dropped = FALSE, parser_state \in Headers
  PROVE  \E ls \in Seq(Line), C \in [Headers -> Seq(Nat)], l \in Line : \E j \in 0 .. Len(l[2]) :
           /\ Table(ls, C, frag_index, frags, data, parser_state)
           /\ lines = Append(ls, l) /\ TokenOf(l[1]) = parser_state /\ input = LeftOf(l[2], j)
           /\ InLine(frags, data, parser_state, C[parser_state], LinesOf(ls, parser_state), l[2], j)
<1>1. PICK ls \in Seq(Line), C \in [Headers -> Seq(Nat)] :
        /\ Table(ls, C, frag_index, frags, data, parser_state)
        /\ Placed(ls, C, frags, data, parser_state, lextable_pos, input, lines)
  BY DEF CollectInv
<1>2. parser_state \notin States
  BY StatesApart
<1>3. AtValue(ls, C, frags, data, parser_state, input, lines)
  BY <1>1, <1>2 DEF Placed, AtName, AtLine, AtSkip, AtCR, AtEnds, AtComplete, States
<1> QED BY <1>1, <1>3 DEF AtValue

(* The fragments of the header being read: the first, and the one of the line. *)
LEMMA ReadFirst ==
  ASSUME NEW ls \in Seq(Line), NEW C \in [Headers -> Seq(Nat)], HeadersInv,
         parser_state \in Headers, parser_state \notin ClientTokens,
         Table(ls, C, frag_index, frags, data, parser_state),
         NEW s, NEW j, InLine(frags, data, parser_state, C[parser_state], LinesOf(ls, parser_state), s, j)
  PROVE  /\ Len(C[parser_state]) = Len(LinesOf(ls, parser_state)) + 1 /\ Len(LinesOf(ls, parser_state)) \in Nat
         /\ LinesOf(ls, parser_state) \in Seq(Line)
         /\ C[parser_state][Len(C[parser_state])] = Len(frags) /\ Len(frags) # 0
         /\ frag_index[parser_state] = C[parser_state][1]
         /\ Len(C[parser_state]) = 1 => FirstLen = frags[Len(frags)].len
         /\ Len(C[parser_state]) > 1 /\ ~Untrimmed(LinesOf(ls, parser_state)[1][2]) => FirstLen # 0
<1> DEFINE h == parser_state
           c == C[h]
           v == LinesOf(ls, h)
<1>0. v \in Seq(Line) /\ c \in Seq(Nat)
  BY LinesType
<1>1. Len(v) \in Nat
  BY <1>0
<1>2. Len(c) = Len(v) + 1
  BY DEF Table, Counts
<1>3. c[Len(c)] = Len(frags) /\ (Len(c) > 1 => h # "GET_URI")
  BY DEF InLine
<1>4. 1 \in 1 .. Len(c) /\ Len(c) \in 1 .. Len(c) /\ c # <<>>
  <2>1. Len(c) # 0
    BY <1>1, <1>2
  <2> HIDE DEF c
  <2> QED BY <1>0, <2>1
<1>5. frag_index[h] = c[1] /\ c[1] \in 1 .. Len(frags)
  BY <1>4 DEF Table, Linked
<1>6. Len(frags) # 0
  BY <1>3, <1>4, <1>5
<1>7. FirstLen = frags[c[1]].len
  BY <1>5 DEF FirstLen
<1>8. ASSUME Len(c) > 1, ~Untrimmed(v[1][2]) PROVE FirstLen # 0
  <2>1. 1 \in 1 .. Len(v)
    BY <1>1, <1>2, <1>8
  <2>2. HoldsOf(frags, data, h, c, v)
    BY DEF Table, Collected
  <2>3. Done(frags, data, c[1], Piece(h, v, 1))
    BY <2>1, <2>2 DEF HoldsOf
  <2>4. Piece(h, v, 1) = Trimmed(v[1][2])
    BY <1>3, <1>8 DEF Piece
  <2>5. v[1] \in Line
    BY <1>0, <2>1
  <2>6. v[1][2] \in Values
    BY <2>5, LineIs
  <2>7. Len(Trimmed(v[1][2])) # 0
    BY <1>8, <2>6, TrimmedSome
  <2> QED BY <1>7, <2>3, <2>4, <2>7 DEF Done
<1> HIDE DEF h, c, v
<1>9. Len(c) = 1 => FirstLen = frags[Len(frags)].len
  BY <1>3, <1>7
<1> QED BY <1>0, <1>1, <1>2, <1>3, <1>5, <1>6, <1>8, <1>9 DEF h, c, v

LEMMA SwallowCollect ==
  ASSUME HeadersInv, CollectInv, Swallow
  PROVE  CollectInv'
<1>0. TableIn(frag_index, frags, data) /\ dropped \in BOOLEAN
  BY InvParts DEF HeadersInv, TableTypes
<1>1. /\ dropped = FALSE /\ parser_state \in Headers /\ FirstLen = 0 /\ lines' = lines
      /\ input # <<>> /\ Head(input) = SP /\ input' = Tail(input)
      /\ parser_state' = parser_state /\ dropped' = FALSE
      /\ frag_index' = frag_index /\ frags' = frags /\ data' = data
  BY <1>0 DEF Swallow, Parsed, InValue, tableVars
<1>2. PICK ls \in Seq(Line), C \in [Headers -> Seq(Nat)], l \in Line : \E j \in 0 .. Len(l[2]) :
           /\ Table(ls, C, frag_index, frags, data, parser_state)
           /\ lines = Append(ls, l) /\ TokenOf(l[1]) = parser_state /\ input = LeftOf(l[2], j)
           /\ InLine(frags, data, parser_state, C[parser_state], LinesOf(ls, parser_state), l[2], j)
  BY <1>1, InAValue
<1>3. PICK j \in 0 .. Len(l[2]) :
           /\ Table(ls, C, frag_index, frags, data, parser_state)
           /\ lines = Append(ls, l) /\ TokenOf(l[1]) = parser_state /\ input = LeftOf(l[2], j)
           /\ InLine(frags, data, parser_state, C[parser_state], LinesOf(ls, parser_state), l[2], j)
  BY <1>2
<1> DEFINE s == l[2]
           c == C[parser_state]
           v == LinesOf(ls, parser_state)
<1>4. s \in Values /\ parser_state \notin ClientTokens
  BY <1>3, LineIs, TokenIs
<1>5. j # Len(s)
  <2>1. CR # SP
    BY DEF CR, SP
  <2> QED BY <1>1, <1>3, <1>4, <2>1, LeftEnd
<1>6. s[j + 1] = SP /\ input' = LeftOf(s, j + 1) /\ j + 1 \in 0 .. Len(s)
  BY <1>1, <1>3, <1>4, <1>5, LeftMore
<1>7. /\ Len(c) = 1 => frags[Len(frags)].len = 0
      /\ Len(c) > 1 => Untrimmed(v[1][2])
  <2>1. /\ Len(c) = 1 => FirstLen = frags[Len(frags)].len
        /\ Len(c) > 1 /\ ~Untrimmed(v[1][2]) => FirstLen # 0
    BY <1>1, <1>3, <1>4, ReadFirst
  <2> QED BY <1>1, <2>1
<1>8. InLine(frags, data, parser_state, c, v, s, j + 1)
  BY <1>3, <1>4, <1>5, <1>6, <1>7, LineSkips
<1>9. AtValue(ls, C, frags', data', parser_state', input', lines')
  BY <1>1, <1>3, <1>6, <1>8 DEF AtValue
<1>10. Placed(ls, C, frags', data', parser_state', lextable_pos', input', lines')
  BY <1>9 DEF Placed
<1>11. Table(ls, C, frag_index', frags', data', parser_state')
  BY <1>1, <1>3
<1> QED BY <1>1, <1>10, <1>11, GoesOnFrom

LEMMA StoreCollect ==
  ASSUME HeadersInv, CollectInv, NEW x \in Chars, Store(x)
  PROVE  CollectInv'
<1>0. TableIn(frag_index, frags, data) /\ dropped \in BOOLEAN
  BY InvParts DEF HeadersInv, TableTypes
<1>1. /\ dropped = FALSE /\ parser_state \in Headers /\ lines' = lines
      /\ input # <<>> /\ Head(input) = x /\ input' = Tail(input)
      /\ parser_state' = StoreState(x) /\ frag_index' = frag_index
      /\ ~(x = SP /\ FirstLen = 0)
  BY <1>0 DEF Store, Parsed, InValue
<1>2. PICK ls \in Seq(Line), C \in [Headers -> Seq(Nat)], l \in Line : \E j \in 0 .. Len(l[2]) :
           /\ Table(ls, C, frag_index, frags, data, parser_state)
           /\ lines = Append(ls, l) /\ TokenOf(l[1]) = parser_state /\ input = LeftOf(l[2], j)
           /\ InLine(frags, data, parser_state, C[parser_state], LinesOf(ls, parser_state), l[2], j)
  BY <1>1, InAValue
<1>3. PICK j \in 0 .. Len(l[2]) :
           /\ Table(ls, C, frag_index, frags, data, parser_state)
           /\ lines = Append(ls, l) /\ TokenOf(l[1]) = parser_state /\ input = LeftOf(l[2], j)
           /\ InLine(frags, data, parser_state, C[parser_state], LinesOf(ls, parser_state), l[2], j)
  BY <1>2
<1> DEFINE s == l[2]
           c == C[parser_state]
           v == LinesOf(ls, parser_state)
<1>4. s \in Values /\ parser_state \notin ClientTokens /\ parser_state \notin States
  BY <1>1, <1>3, LineIs, TokenIs, StatesApart
<1>5. StoreState(x) # "PARSING_COMPLETE"
  BY <1>4 DEF StoreState, States
<1>6. /\ Len(c) = Len(v) + 1 /\ Len(v) \in Nat /\ v \in Seq(Line) /\ c[Len(c)] = Len(frags) /\ Len(frags) # 0
      /\ Len(c) = 1 => FirstLen = frags[Len(frags)].len
  BY <1>1, <1>3, <1>4, ReadFirst
<1>7. lines \in Seq(Line) /\ lines # <<>>
  <2>1. Append(ls, l) \in Seq(Line) /\ Append(ls, l) # <<>>
    BY SMTT(60)
  <2> QED BY <1>3, <2>1
<1>8. frags \in Seq(Fragments) /\ data \in Seq(Chars \cup {NUL}) /\ Len(frags) \in Nat
  BY <1>0 DEF TableIn
<1>9. CASE ~Space
  BY <1>1, <1>5, <1>9, Drops DEF Store, Drop
<1>10. CASE Space
  <2>0. /\ data' = Append(data, Stored(x)) /\ dropped' = FALSE
        /\ frags' = IF Stored(x) = NUL THEN frags ELSE [frags EXCEPT ![Len(frags)].len = @ + 1]
    BY <1>1, <1>10 DEF Store, next_frag_index
  <2>1. CASE x = CR
    <3>1. StoreState(x) = "SKIPPING_SAW_CR" /\ Stored(x) = NUL
      BY <1>4, <2>1 DEF StoreState, Stored, States, CR, SP
    <3>2. j = Len(s)
      <4>1. CR \notin {"x", SP}
        BY DEF CR, SP
      <4> QED BY <1>1, <1>3, <1>4, <2>1, <4>1, LeftMore, ZenonT(60)
    <3>3. input' = <<LF>>
      BY <1>1, <1>3, <1>4, <3>2, LeftEnd
    <3>4. "SKIPPING_SAW_CR" \notin Headers
      BY StatesApart DEF States
    <3>5. Table(lines, C, frag_index, frags, Append(data, NUL), "SKIPPING_SAW_CR")
      BY <1>0, <1>1, <1>3, <1>6, <3>2, <3>4, TableEnds
    <3>6. Table(lines, C, frag_index', frags', data', parser_state')
      BY <1>1, <2>0, <3>1, <3>5
    <3>7. Placed(lines, C, frags', data', parser_state', lextable_pos', input', lines')
      BY <1>1, <1>7, <3>1, <3>3 DEF Placed, AtCR
    <3> QED BY <1>7, <2>0, <3>6, <3>7, GoesOnFrom
  <2>2. CASE x # CR
    <3>1. j # Len(s)
      BY <1>1, <1>3, <1>4, <2>2, LeftEnd
    <3>2. s[j + 1] = x /\ x \in {"x", SP} /\ input' = LeftOf(s, j + 1) /\ j + 1 \in 0 .. Len(s)
      BY <1>1, <1>3, <1>4, <3>1, LeftMore
    <3>3. CASE parser_state = "GET_URI" /\ x = SP
      <4>1. StoreState(x) = "SKIPPING" /\ Stored(x) = NUL
        BY <1>4, <3>3 DEF StoreState, Stored, States
      <4>2. Len(c) = 1
        <5>1. ~(Len(c) > 1)
          BY <1>3, <3>3 DEF InLine
        <5> QED BY <1>6, <5>1
      <4>3. frags[Len(frags)].len # 0
        BY <1>1, <1>6, <3>3, <4>2
      <4>4. "SKIPPING" \notin Headers
        BY StatesApart DEF States
      <4>5. Table(lines, C, frag_index, frags, Append(data, NUL), "SKIPPING")
        BY <1>0, <1>1, <1>3, <1>6, <3>2, <3>3, <4>3, <4>4, TableEnds
      <4>6. Table(lines, C, frag_index', frags', data', parser_state')
        BY <1>1, <2>0, <4>1, <4>5
      <4>7. AtSkip(lines, parser_state', input', lines')
        BY <1>1, <1>4, <1>7, <3>2, <4>1 DEF AtSkip
      <4>8. Placed(lines, C, frags', data', parser_state', lextable_pos', input', lines')
        BY <4>7 DEF Placed
      <4> QED BY <1>7, <2>0, <4>6, <4>8, GoesOnFrom
    <3>4. CASE ~(parser_state = "GET_URI" /\ x = SP)
      <4>1. StoreState(x) = parser_state /\ Stored(x) = x
        BY <2>2, <3>4 DEF StoreState, Stored
      <4>2. x # NUL
        BY <3>2 DEF NUL, SP
      <4> DEFINE g == [frags EXCEPT ![Len(frags)].len = @ + 1]
      <4>3. frags' = g /\ data' = Append(data, x)
        BY <2>0, <4>1, <4>2
      <4>4. /\ Len(g) = Len(frags)
            /\ \A k \in 1 .. Len(frags) :
                 /\ g[k].offset = frags[k].offset /\ g[k].next = frags[k].next
                 /\ g[k].len = IF k = Len(frags) THEN frags[k].len + 1 ELSE frags[k].len
        BY <1>8, CountedAt
      <4> HIDE DEF g
      <4>5. Len(frags) \in 1 .. Len(frags)
        BY <1>6, <1>8
      <4>6. g[Len(frags)].len = frags[Len(frags)].len + 1 /\ g[Len(frags)].offset = frags[Len(frags)].offset
        BY <4>4, <4>5
      <4>7. \A k \in 1 .. Len(frags) : g[k].next = frags[k].next /\ (k # Len(frags) => Stays(frags, g, k))
        BY <4>4 DEF Stays
      <4>8. GrownTo(data, data')
        <5>1. x \in Chars \cup {NUL}
          OBVIOUS
        <5> QED BY <1>8, <4>3, <5>1, GrownBy
      <4>9. Table(ls, C, frag_index, g, data', parser_state)
        BY <1>0, <1>1, <1>3, <1>4, <1>6, <4>4, <4>7, <4>8, TableCounts
      <4>10. Table(ls, C, frag_index', frags', data', parser_state')
        BY <1>1, <4>1, <4>3, <4>9
      <4>11. InLine(g, Append(data, s[j + 1]), parser_state, c, v, s, j + 1)
        <5>1. (parser_state = "GET_URI" => s[j + 1] # SP) /\ (Len(c) = 1 /\ frags[Len(frags)].len = 0 => s[j + 1] # SP)
          BY <1>1, <1>6, <3>2, <3>4
        <5>2. Len(c) \in Nat
          BY <1>6
        <5>3. InLine(frags, data, parser_state, c, v, s, j) /\ Len(g) = Len(frags) /\ Len(frags) # 0
          BY <1>3, <1>6, <4>4
        <5> HIDE DEF s, c, v
        <5>4. j \in 0 .. Len(s)
          BY DEF s
        <5> QED BY <1>0, <1>4, <3>1, <4>6, <5>1, <5>2, <5>3, <5>4, LineMore, ZenonT(60)
      <4>12. AtValue(ls, C, frags', data', parser_state', input', lines')
        BY <1>1, <1>3, <3>2, <4>1, <4>3, <4>11 DEF AtValue
      <4>13. Placed(ls, C, frags', data', parser_state', lextable_pos', input', lines')
        BY <4>12 DEF Placed
      <4> QED BY <2>0, <4>10, <4>13, GoesOnFrom
    <3> QED BY <3>3, <3>4
  <2> QED BY <2>1, <2>2
<1> QED BY <1>9, <1>10

(* A line whose header's first fragment, or next one, has just begun. *)
LEMMA LineBegins ==
  ASSUME NEW g, NEW d, NEW s, NEW h, NEW c, NEW v, Len(c) = 1, c[1] = Len(g), Len(d) \in Nat,
         g[Len(g)].offset = Len(d), g[Len(g)].len = 0
  PROVE  InLine(g, d, h, c, v, s, 0)
<1>1. Len(d) + 0 = Len(d) /\ 0 \in 0 .. 0 /\ 0 - 0 = 0
  OBVIOUS
<1>2. Began(g, d, h, s, 0, 0)
  BY <1>1 DEF Began
<1>3. c[Len(c)] = Len(g) /\ ~(Len(c) > 1) /\ g[Len(g)].offset + g[Len(g)].len = Len(d)
  BY <1>1
<1> QED BY <1>1, <1>2, <1>3 DEF InLine

LEMMA LineContinues ==
  ASSUME NEW g, NEW T, NEW d \in Seq(T), SP \in T, NEW s, NEW h, h # "GET_URI", NEW c, NEW v, Len(c) \in Nat, Len(c) > 1,
         c[Len(c)] = Len(g), g[Len(g)].offset = Len(d), g[Len(g)].len = 1
  PROVE  InLine(g, Append(d, SP), h, c, v, s, 0)
<1>1. Len(Append(d, SP)) = Len(d) + 1 /\ Append(d, SP)[Len(d) + 1] = SP
  BY AppendAt
<1>2. 0 + 1 = 1 /\ Len(c) # 1
  OBVIOUS
<1>3. GoesOn(g, Append(d, SP), s, 0)
  BY <1>1, <1>2 DEF GoesOn
<1> QED BY <1>1, <1>2, <1>3 DEF InLine

LEMMA KnownCollect ==
  ASSUME HeadersInv, CollectInv, NEW name, Known(name)
  PROVE  CollectInv'
<1>0. TableIn(frag_index, frags, data) /\ dropped \in BOOLEAN
  BY InvParts DEF HeadersInv, TableTypes
<1>1. /\ dropped = FALSE /\ parser_state = "NAME_PART" /\ lextable_pos = 0 /\ lines' = lines
      /\ input # <<>> /\ Head(input) = name /\ input' = Tail(input) /\ name \in Names \ {Unknown}
  BY <1>0 DEF Known, Parsed
<1>2. PICK ls \in Seq(Line), C \in [Headers -> Seq(Nat)] :
        /\ Table(ls, C, frag_index, frags, data, parser_state)
        /\ Placed(ls, C, frags, data, parser_state, lextable_pos, input, lines)
  BY <1>1 DEF CollectInv
<1>3. AtLine(ls, parser_state, lextable_pos, input, lines)
  <2>1. ~AtEnds(ls, parser_state, lextable_pos, input, lines)
    <3>1. CR \notin Names
      BY HeadersAssumption DEF CR, Names, Unknown
    <3>2. Head(<<CR, LF>>) = CR
      OBVIOUS
    <3> QED BY <1>1, <3>1, <3>2 DEF AtEnds
  <2> QED BY <1>1, <1>2, <2>1, BeforeName DEF AtName
<1>4. PICK l \in Line : lines = Append(ls, l) /\ Head(input) = l[1] /\ Tail(input) = LeftOf(l[2], 0)
  BY <1>3 DEF AtLine
<1> DEFINE h == TokenOf(name)
<1>5. h \in Headers /\ h \notin ClientTokens /\ h \notin States /\ (h = "GET_URI" => name = "GET_URI")
  BY <1>1, <1>4, TokenIs, StatesApart
<1>6. parser_state \notin Headers /\ l[2] \in Values /\ 0 \in 0 .. Len(l[2])
  <2>1. parser_state \notin Headers
    BY <1>1, HeadersAssumption
  <2>2. l[2] \in Values
    BY LineIs
  <2> QED BY <2>1, <2>2, ValueIs
<1>7. frags \in Seq(Fragments) /\ data \in Seq(Chars \cup {NUL}) /\ Len(frags) \in Nat /\ Len(data) \in Nat
  BY <1>0 DEF TableIn
<1>8. CASE name = "GET_URI" /\ frag_index["GET_URI"] # 0
  <2>1. dropped' = TRUE /\ parser_state' = parser_state
    BY <1>8 DEF Known, Drop
  <2> QED BY <1>1, <2>1, Drops
<1>9. CASE ~(name = "GET_URI" /\ frag_index["GET_URI"] # 0)
  <2>1. parser_state' = h /\ StartFragment(h) /\ h # "PARSING_COMPLETE"
    BY <1>5, <1>9 DEF Known, States
  <2>2. CASE dropped' = TRUE
    BY <2>1, <2>2, Drops
  <2>3. CASE dropped' # TRUE /\ frag_index[h] = 0
    <3> DEFINE r == [offset |-> Len(data), len |-> 0, next |-> 0]
    <3>1. /\ frags' = Append(frags, r) /\ frag_index' = [frag_index EXCEPT ![h] = Len(frags) + 1]
          /\ data' = data /\ dropped' = dropped
      BY <2>1, <2>3 DEF StartFragment, next_frag_index, pos, Drop
    <3>2. r \in Fragments /\ r.offset = Len(data) /\ r.len = 0 /\ r.next = 0
      BY <1>7 DEF Fragments
    <3> HIDE DEF r
    <3>3. /\ Len(frags') = Len(frags) + 1 /\ frags'[Len(frags) + 1] = r
          /\ \A k \in 1 .. Len(frags) : frags'[k] = frags[k]
      BY <1>7, <3>1, <3>2, AppendAt
    <3>4. GrownTo(data, data')
      BY <3>1, <1>7 DEF GrownTo
    <3>5. PICK D : BegunIn(ls, D, frag_index, frags, frags', data', h, h)
      <4>1. (h \in ClientTokens /\ h \notin Headers) \/ (h \notin ClientTokens /\ h = h)
        BY <1>5
      <4>2. frags'[Len(frags) + 1].next = 0 /\ Table(ls, C, frag_index, frags, data, parser_state)
        BY <1>2, <3>2, <3>3
      <4> HIDE DEF h
      <4> QED BY <1>0, <1>5, <1>6, <2>3, <3>3, <3>4, <4>1, <4>2, TableFirst
    <3>6. /\ D \in [Headers -> Seq(Nat)] /\ Len(D[h]) = 1 /\ D[h][1] = Len(frags')
          /\ Table(ls, D, frag_index', frags', data', parser_state')
      BY <2>1, <3>1, <3>3, <3>5 DEF BegunIn
    <3>7. InLine(frags', data', h, D[h], LinesOf(ls, h), l[2], 0)
      <4>1. frags'[Len(frags')].offset = Len(data') /\ frags'[Len(frags')].len = 0 /\ Len(data') \in Nat
        BY <1>7, <3>1, <3>2, <3>3
      <4> QED BY <3>6, <4>1, LineBegins
    <3>8. AtValue(ls, D, frags', data', parser_state', input', lines')
      BY <1>1, <1>4, <1>5, <1>6, <2>1, <3>7 DEF AtValue
    <3>9. Placed(ls, D, frags', data', parser_state', lextable_pos', input', lines')
      BY <3>8 DEF Placed
    <3>10. dropped' = FALSE
      BY <1>1, <3>1
    <3> QED BY <3>6, <3>9, <3>10, GoesOnFrom
  <2>4. CASE dropped' # TRUE /\ frag_index[h] # 0
    <3> DEFINE c == C[h]
               k == c[Len(c)]
               f == [frags EXCEPT ![k].next = Len(frags) + 1]
               r == [offset |-> Len(data), len |-> 1, next |-> 0]
    <3>1. Chain(frag_index[h]) = c
      BY <1>2, <1>5, UpwardsIs, ChainOf DEF Table
    <3>2. Last(Chain(frag_index[h])) = k
      BY <3>1 DEF Last
    <3>3. /\ frags' = Append(f, r) /\ frag_index' = frag_index
          /\ data' = Append(data, SP) /\ dropped' = dropped
      <4>1. frags' = Append([frags EXCEPT ![Last(Chain(frag_index[h]))].next = Len(frags) + 1], r)
            /\ frag_index' = frag_index /\ data' = Append(data, SP) /\ dropped' = dropped
        BY <2>1, <2>4 DEF StartFragment, next_frag_index, pos, Drop
      <4> QED BY <3>2, <4>1
    <3>4. r \in Fragments /\ r.offset = Len(data) /\ r.len = 1 /\ r.next = 0
      BY <1>7 DEF Fragments
    <3>5. /\ f \in Seq(Fragments) /\ Len(f) = Len(frags)
          /\ \A i \in 1 .. Len(frags) :
               /\ f[i].offset = frags[i].offset /\ f[i].len = frags[i].len
               /\ f[i].next = IF i = k THEN Len(frags) + 1 ELSE frags[i].next
      <4> HIDE DEF c, k
      <4> QED BY <1>7, LinkedAt
    <3> HIDE DEF r, f
    <3>6. /\ Len(frags') = Len(frags) + 1 /\ frags'[Len(frags) + 1] = r
          /\ \A i \in 1 .. Len(frags) : frags'[i] = f[i]
      BY <3>3, <3>4, <3>5, AppendAt
    <3>7. GrownTo(data, data')
      <4>1. SP \in Chars \cup {NUL}
        BY DEF Chars
      <4> QED BY <1>7, <3>3, <4>1, GrownBy
    <3>8. c # <<>>
      BY <1>2, <1>5, <1>7, <2>4, NoChain DEF Table
    <3>9. \A i \in 1 .. Len(frags) :
            Stays(frags, frags', i) /\ frags'[i].next = (IF i = C[h][Len(C[h])] THEN Len(frags) + 1 ELSE frags[i].next)
      BY <3>5, <3>6 DEF Stays
    <3>10. PICK D : ContinuedIn(ls, D, frag_index, frags, frags', data', h)
      <4>1. frags'[Len(frags) + 1].next = 0 /\ Table(ls, C, frag_index, frags, data, parser_state)
        BY <1>2, <3>4, <3>6
      <4>2. C[h] # <<>> /\ Len(frags') = Len(frags) + 1
        BY <3>6, <3>8
      <4> HIDE DEF h, c, k
      <4> QED BY <1>0, <1>5, <1>6, <3>7, <3>9, <4>1, <4>2, TableNext
    <3>11. /\ D \in [Headers -> Seq(Nat)] /\ Len(D[h]) \in Nat /\ Len(D[h]) > 1 /\ D[h][Len(D[h])] = Len(frags')
           /\ Table(ls, D, frag_index', frags', data', parser_state')
      BY <2>1, <3>3, <3>6, <3>10 DEF ContinuedIn
    <3>12. h # "GET_URI"
      BY <1>5, <1>9, <2>4
    <3>13. InLine(frags', data', h, D[h], LinesOf(ls, h), l[2], 0)
      <4>1. frags'[Len(frags')].offset = Len(data) /\ frags'[Len(frags')].len = 1
        BY <3>4, <3>6
      <4>2. SP \in Chars \cup {NUL}
        BY DEF Chars
      <4>3. InLine(frags', Append(data, SP), h, D[h], LinesOf(ls, h), l[2], 0)
        BY <1>7, <3>11, <3>12, <4>1, <4>2, LineContinues
      <4> QED BY <3>3, <4>3
    <3>14. AtValue(ls, D, frags', data', parser_state', input', lines')
      BY <1>1, <1>4, <1>5, <1>6, <2>1, <3>13 DEF AtValue
    <3>15. Placed(ls, D, frags', data', parser_state', lextable_pos', input', lines')
      BY <3>14 DEF Placed
    <3>16. dropped' = FALSE
      BY <1>1, <3>3
    <3> QED BY <3>11, <3>15, <3>16, GoesOnFrom
  <2> QED BY <2>2, <2>3, <2>4
<1> QED BY <1>8, <1>9

LEMMA StutterCollect ==
  ASSUME CollectInv, UNCHANGED vars
  PROVE  CollectInv'
<1>1. /\ frag_index' = frag_index /\ frags' = frags /\ data' = data /\ dropped' = dropped /\ lines' = lines
      /\ parser_state' = parser_state /\ lextable_pos' = lextable_pos /\ input' = input
  BY DEF vars
<1> QED BY <1>1 DEF CollectInv

LEMMA CollectStep == HeadersInv /\ CollectInv /\ [Next]_vars => CollectInv'
<1> SUFFICES ASSUME HeadersInv, CollectInv, [Next]_vars PROVE CollectInv'
  OBVIOUS
<1>0. dropped \in BOOLEAN
  BY DEF HeadersInv, TableTypes
<1>1. CASE \E h \in ClientTokens : Create(h, <<"x">>)
  BY <1>1, CreateCollect
<1>2. CASE \E name \in Names, value \in Values : SendLine(name, value)
  BY <1>0, <1>2, SendLineCollect
<1>3. CASE SendEnd
  BY <1>0, <1>3, SendEndCollect
<1>4. CASE SendMore \/ \E x \in Chars : Ignore(x)
  <2>1. /\ dropped = FALSE /\ dropped' = FALSE /\ parser_state = "PARSING_COMPLETE"
        /\ parser_state' = parser_state /\ lines' = lines /\ UNCHANGED tableVars
    BY <1>0, <1>4 DEF SendMore, Ignore, Parsed
  <2> QED BY <2>1, CompleteCollect
<1>5. CASE Swallow
  BY <1>5, SwallowCollect
<1>6. CASE NameCR
  BY <1>0, <1>6, NameCRCollect
<1>7. CASE Complete
  BY <1>0, <1>7, EndCollect
<1>8. CASE UnknownName
  BY <1>0, <1>8, UnknownCollect
<1>9. CASE \E x \in Chars : Store(x)
  BY <1>9, StoreCollect
<1>10. CASE \E x \in Chars : Known(x)
  BY <1>10, KnownCollect
<1>11. CASE \E x \in Chars : Skip(x)
  BY <1>0, <1>11, SkipCollect
<1>12. CASE UNCHANGED vars
  BY <1>12, StutterCollect
<1> QED BY <1>1, <1>2, <1>3, <1>4, <1>5, <1>6, <1>7, <1>8, <1>9, <1>10, <1>11, <1>12 DEF Next, Parse

(* When libwebsocket_parse has seen the end of the headers, lws_hdr_copy gives of each one   *)
(* all the values it was sent with, joined by spaces, and lws_hdr_total_length their length, *)
(* for every number of lines and every length of a value, in whatever order the headers      *)
(* alternate, and whatever the client had put into the table before.                          *)
THEOREM HeadersReadBack == Spec => []HeadersCollected
<1>1. HeadersInv /\ CollectInv => HeadersCollected
  BY ReadBack
<1> QED BY <1>1, HeadersInit, HeadersStep, CollectInit, CollectStep, PTL DEF Spec

---------------------------------------------------------------------------
(* The receive state machine: its invariant *)

(* What a byte may stand for. *)
ByteValues == DataOps \cup ControlOps \cup [masked : BOOLEAN, n : Nat] \cup Nat \cup (Nat \X Nat)
Bytes == [v : ByteValues, x : {0, 1}]
Frames == [op : DataOps \cup ControlOps, n : Lens]
Pieces == [reason : {"RECEIVE", "RECEIVE_PONG"}, data : Seq(Bytes), binary : BOOLEAN, rest : Nat]

(* The frame on the wire: the last one written. *)
Cur == Len(written)
Op == written[Cur].op
N == written[Cur].n
TheFrame(key) == Frame(Op, N, role = "server", key, Cur)

(* The bytes before the key, and before the payload. *)
HeaderLen == 1 + Len(LenField(N))
PayloadAt == HeaderLen + (IF role = "server" THEN 4 ELSE 0)

(* The bytes of frame f from the one after a up to b, as they were given. *)
Run(f, a, b) == [k \in 1 .. b - a |-> Byte(<<f, a + k>>)]

(* What a reader in role ro hears of the first m bytes of frame i, and of the first k frames. *)
HeardBy(ro) == IF ro = "client" THEN DataOps \cup {"PONG"} ELSE DataOps
HeardOf(wr, ro, i, m) == IF wr[i].op \in HeardBy(ro) THEN Run(i, 0, m) ELSE <<>>
SentOf(wr, ro, k) == FlattenSeq([i \in 1 .. k |-> HeardOf(wr, ro, i, wr[i].n)])
GotOf(rcv) == FlattenSeq([i \in 1 .. Len(rcv) |-> rcv[i].data])

(* The type of the message that frame f belongs to. *)
Starts(wr, f) == {i \in 1 .. f : wr[i].op \in {"TEXT", "BINARY"}}
BinaryAt(wr, f) ==
  Starts(wr, f) # {} /\ wr[CHOOSE i \in Starts(wr, f) : \A j \in Starts(wr, f) : j <= i].op = "BINARY"

(* The user has all that was sent before the current frame, and m bytes of that. *)
GotTo(m) == GotOf(received) = SentOf(written, role, Cur - 1) \o HeardOf(written, role, Cur, m)

(* w is what is left of fr from its p-th byte on. *)
Remains(w, fr, p) ==
  /\ Len(w) = Len(fr) + 1 - p
  /\ \A i \in 1 .. Len(w) : w[i] = fr[p - 1 + i]

Nothing == rx_user_buffer = <<>> /\ GotTo(0)
Opened == opcode = Op /\ frame_is_binary = BinaryAt(written, Cur)

(* j bytes of the key have been read. *)
KeyRead(key, j) ==
  /\ \A i \in 0 .. j - 1 : frame_masking_nonce[i] = KeyByte(key, i)
  /\ all_zero_nonce = \A i \in 0 .. j - 1 : KeyByte(key, i) = 0

AtNew(p) ==
  /\ lws_rx_parse_state = "NEW" /\ p = 1
  /\ frame_is_binary = BinaryAt(written, Cur - 1) /\ Nothing

AtHdrLen(p) ==
  /\ lws_rx_parse_state = "HDR_LEN" /\ p = 2
  /\ Opened /\ Nothing
  /\ role = "server" => all_zero_nonce

AtLen(p) ==
  /\ lws_rx_parse_state = "LEN" /\ p \in 3 .. HeaderLen
  /\ Opened /\ Nothing
  /\ role = "server" => all_zero_nonce
  /\ this_frame_masked = (role = "server")
  /\ Op \in DataOps
  /\ left = HeaderLen + 1 - p
  /\ rx_packet_length = IF p = 3 THEN 0 ELSE Shifts(N)[left + 1]

AtKey(key, p) ==
  /\ lws_rx_parse_state = "KEY" /\ p \in HeaderLen + 1 .. HeaderLen + 4
  /\ Opened /\ Nothing
  /\ role = "server" /\ this_frame_masked
  /\ Op \in ControlOps => N < Small
  /\ left = HeaderLen + 5 - p
  /\ rx_packet_length = N
  /\ KeyRead(key, 4 - left)

(* i bytes of the payload have been read, and those after m are in the buffer. *)
InPayload(key, i, m) ==
  /\ lws_rx_parse_state = "PAYLOAD" /\ i < N /\ m <= i
  /\ Opened
  /\ this_frame_masked = (role = "server")
  /\ Op \in ControlOps => N < Small /\ (PingFits => m = 0)
  /\ rx_packet_length = N - i
  /\ rx_user_buffer = Run(Cur, m, i) /\ GotTo(m)
  /\ role = "server" => KeyRead(key, 4) /\ (~all_zero_nonce => frame_mask_index = i % 4)

AtPayload(key, p) == \E i, m \in 0 .. N : p = PayloadAt + 1 + i /\ InPayload(key, i, m)

Idle ==
  /\ wire = <<>> /\ lws_rx_parse_state = "NEW" /\ rx_user_buffer = <<>>
  /\ frame_is_binary = BinaryAt(written, Cur)
  /\ GotOf(received) = SentOf(written, role, Cur)

Busy ==
  /\ Cur > 0
  /\ \E key \in Keys : \E p \in 1 .. PayloadAt + N :
       /\ Remains(wire, TheFrame(key), p)
       /\ AtNew(p) \/ AtHdrLen(p) \/ AtLen(p) \/ AtKey(key, p) \/ AtPayload(key, p)

Over == Cur > 0 /\ \E m \in 0 .. N : GotTo(m)

RxTypes ==
  /\ role \in {"client", "server"} /\ conn \in {"open", "closed"}
  /\ written \in Seq(Frames) /\ \A i \in 1 .. Len(written) : written[i].n = 0 => written[i].op \in ControlOps
  /\ wire \in Seq(Bytes) /\ rx_user_buffer \in Seq(Bytes)
  /\ frame_masking_nonce \in [0 .. 3 -> {0, 1}] /\ all_zero_nonce \in BOOLEAN
  /\ frame_is_binary \in BOOLEAN
  /\ received \in Seq(Pieces) /\ pongs \in Seq(Seq(Bytes))

PieceIn(wr, q) ==
  /\ Len(q.data) > 0
  /\ q.data[1].v[1] \in 1 .. Len(wr)
  /\ q.data[Len(q.data)].v[2] + q.rest = wr[q.data[1].v[1]].n
  /\ q.reason = "RECEIVE" => q.binary = BinaryAt(wr, q.data[1].v[1])

PiecesOK == \A i \in 1 .. Len(received) : PieceIn(written, received[i])

(* A ping among the frames has the payload d. *)
PingOf(wr, d) == \E f \in 1 .. Len(wr) : wr[f].op = "PING" /\ d = Run(f, 0, wr[f].n)

PongsOK == PingFits => \A i \in 1 .. Len(pongs) : PingOf(written, pongs[i])

(* What holds until the peer sends a server a frame without payload. *)
RxOrdered ==
  /\ RxTypes /\ PiecesOK /\ PongsOK
  /\ conn = "open" => Idle \/ Busy
  /\ conn = "closed" => Over

IsSeq(s) == \E S : s \in Seq(S)

RxInv ==
  /\ written \in Seq(Frames)
  /\ IsSeq(rx_user_buffer) /\ Len(rx_user_buffer) < RxBuf
  /\ ~Derailed => RxOrdered

---------------------------------------------------------------------------
(* Lengths *)

LEMMA DivMod ==
  ASSUME NEW x \in Int, NEW Q \in Nat, Q > 0
  PROVE  /\ x % Q \in 0 .. Q - 1
         /\ x \div Q \in Int
         /\ x = Q * (x \div Q) + (x % Q)
OBVIOUS

LEMMA Shifted ==
  ASSUME NEW n \in Nat
  PROVE  /\ n \div Base \in Nat /\ n % Base \in 0 .. Base - 1
         /\ n = (n \div Base) * Base + (n % Base)
<1>1. Base \in Nat /\ Base > 0
  BY RxAssumption
<1> DEFINE q == n \div Base
           r == n % Base
<1>2. q \in Int /\ r \in 0 .. Base - 1 /\ n = Base * q + r
  BY <1>1, DivMod
<1> HIDE DEF q, r
<1>3. ASSUME q < 0 PROVE FALSE
  <2>1. Base * q <= Base * (-1)
    BY <1>1, <1>2, <1>3
  <2> QED BY <1>1, <1>2, <2>1
<1>4. q \in Nat /\ Base * q = q * Base
  BY <1>1, <1>2, <1>3
<1> QED BY <1>2, <1>4 DEF q, r

LEMMA ShiftedBelow ==
  ASSUME NEW n \in Nat, NEW m \in Nat, n < Base * m
  PROVE  n \div Base < m
<1> DEFINE q == n \div Base
           r == n % Base
<1>1. q \in Nat /\ r \in 0 .. Base - 1 /\ n = q * Base + r /\ Base \in Nat
  BY Shifted, RxAssumption
<1> HIDE DEF q, r
<1>2. ASSUME q >= m PROVE FALSE
  <2>1. q * Base >= Base * m
    BY <1>1, <1>2
  <2> QED BY <1>1, <2>1
<1>3. q < m
  BY <1>1, <1>2
<1> QED BY <1>3 DEF q

LEMMA SmallMod ==
  ASSUME NEW n \in Nat, n < Base
  PROVE  n % Base = n
BY RxAssumption

LEMMA ShiftsAt ==
  ASSUME NEW n \in Nat
  PROVE  /\ Shifts(n) \in Seq(Nat) /\ Len(Shifts(n)) = 8 /\ Shifts(n)[1] = n
         /\ \A k \in 1 .. 7 : Shifts(n)[k + 1] = Shifts(n)[k] \div Base
         /\ \A k \in 1 .. 8 : Shifts(n)[k] \in Nat
<1> DEFINE s1 == n \div Base
           s2 == s1 \div Base
           s3 == s2 \div Base
           s4 == s3 \div Base
           s5 == s4 \div Base
           s6 == s5 \div Base
           s7 == s6 \div Base
<1>0. Shifts(n) = <<n, s1, s2, s3, s4, s5, s6, s7>>
  BY DEF Shifts
<1>1. s1 \in Nat
  BY Shifted
<1>2. s2 \in Nat
  BY <1>1, Shifted
<1>3. s3 \in Nat
  BY <1>2, Shifted
<1>4. s4 \in Nat
  BY <1>3, Shifted
<1>5. s5 \in Nat
  BY <1>4, Shifted
<1>6. s6 \in Nat
  BY <1>5, Shifted
<1>7. s7 \in Nat
  BY <1>6, Shifted
<1>8. /\ s2 = s1 \div Base /\ s3 = s2 \div Base /\ s4 = s3 \div Base /\ s5 = s4 \div Base
      /\ s6 = s5 \div Base /\ s7 = s6 \div Base /\ s1 = n \div Base
  OBVIOUS
<1> HIDE DEF s1, s2, s3, s4, s5, s6, s7
<1> DEFINE s == Shifts(n)
<1>9. /\ s \in Seq(Nat) /\ Len(s) = 8
      /\ s[1] = n /\ s[2] = s1 /\ s[3] = s2 /\ s[4] = s3
      /\ s[5] = s4 /\ s[6] = s5 /\ s[7] = s6 /\ s[8] = s7
  BY <1>0, <1>1, <1>2, <1>3, <1>4, <1>5, <1>6, <1>7
<1> HIDE DEF s
<1>10. ASSUME NEW k \in 1 .. 7 PROVE s[k + 1] = s[k] \div Base
  <2>1. k = 1 \/ k = 2 \/ k = 3 \/ k = 4 \/ k = 5 \/ k = 6 \/ k = 7
    OBVIOUS
  <2>2. 1 + 1 = 2 /\ 2 + 1 = 3 /\ 3 + 1 = 4 /\ 4 + 1 = 5 /\ 5 + 1 = 6 /\ 6 + 1 = 7 /\ 7 + 1 = 8
    OBVIOUS
  <2> QED BY <2>1, <2>2, <1>8, <1>9, Zenon
<1>11. ASSUME NEW k \in 1 .. 8 PROVE s[k] \in Nat
  <2>1. s \in Seq(Nat) /\ Len(s) = 8
    BY <1>9
  <2> QED BY <2>1, ElementAt
<1> QED BY <1>9, <1>10, <1>11 DEF s

LEMMA ShiftsBack ==
  ASSUME NEW n \in Nat, NEW k \in 1 .. 7
  PROVE  /\ Shifts(n)[k] \in Nat /\ Shifts(n)[k + 1] \in Nat
         /\ Shifts(n)[k + 1] * Base + (Shifts(n)[k] % Base) = Shifts(n)[k]
<1>0. k \in 1 .. 8
  OBVIOUS
<1>1. PICK a \in Nat : a = Shifts(n)[k]
  BY <1>0, ShiftsAt
<1>2. Shifts(n)[k + 1] = a \div Base
  BY <1>1, ShiftsAt
<1>3. a \div Base \in Nat /\ a = (a \div Base) * Base + (a % Base)
  BY Shifted
<1> QED BY <1>1, <1>2, <1>3

LEMMA MulNat ==
  ASSUME NEW a \in Nat, NEW b \in Nat
  PROVE  a * b \in Nat
OBVIOUS

LEMMA MulAssoc ==
  ASSUME NEW a \in Nat, NEW b \in Nat, NEW c \in Nat
  PROVE  (a * b) * c = a * (b * c)
OBVIOUS

(* size_t as eight factors. *)
LEMMA SizeModIs ==
  LET m1 == Base
      m2 == Base * m1
      m3 == Base * m2
      m4 == Base * m3
      m5 == Base * m4
      m6 == Base * m5
      m7 == Base * m6
  IN SizeMod = Base * m7 /\ m2 \in Nat /\ m3 \in Nat /\ m4 \in Nat /\ m5 \in Nat /\ m6 \in Nat /\ m7 \in Nat
<1> DEFINE b2 == Base * Base
           b3 == Base * b2
           b4 == Base * b3
           b5 == Base * b4
           b6 == Base * b5
           b7 == Base * b6
<1>0. Base \in Nat
  BY RxAssumption
<1>2. b2 \in Nat
  BY <1>0, MulNat
<1>3. b3 \in Nat
  BY <1>0, <1>2, MulNat
<1>4. b4 \in Nat
  BY <1>0, <1>3, MulNat
<1>5. b5 \in Nat
  BY <1>0, <1>4, MulNat
<1>6. b6 \in Nat
  BY <1>0, <1>5, MulNat
<1>7. b7 \in Nat
  BY <1>0, <1>6, MulNat
<1> DEFINE q == b2 * b2
<1>8. q = b4
  BY <1>0, <1>2, MulAssoc
<1>9. q * q = Base * b7
  <2>1. b2 * q = b6 /\ b2 * b6 = Base * b7
    BY <1>0, <1>2, <1>4, <1>6, <1>8, MulAssoc
  <2>2. q * q = b2 * (b2 * q)
    BY <1>2, <1>4, <1>8, MulAssoc
  <2> QED BY <2>1, <2>2
<1>10. SizeMod = q * q
  BY DEF SizeMod
<1> HIDE DEF q
<1> QED BY <1>2, <1>3, <1>4, <1>5, <1>6, <1>7, <1>9, <1>10

(* The most significant byte of an extended length of two bytes, and of eight. *)
LEMMA TopOfTwo ==
  ASSUME NEW n \in Nat, n < Base * Base
  PROVE  Shifts(n)[2] % Base = Shifts(n)[2]
<1>1. Base \in Nat /\ n \div Base < Base /\ n \div Base \in Nat
  BY ShiftedBelow, Shifted, RxAssumption
<1>2. Shifts(n)[2] = n \div Base
  BY ShiftsAt
<1> QED BY <1>1, <1>2, SmallMod

LEMMA TopOfEight ==
  ASSUME NEW n \in Nat, n < SizeMod
  PROVE  Shifts(n)[8] % Base = Shifts(n)[8]
<1> DEFINE m2 == Base * Base
           m3 == Base * m2
           m4 == Base * m3
           m5 == Base * m4
           m6 == Base * m5
           m7 == Base * m6
           s(k) == Shifts(n)[k]
<1>0. /\ Base \in Nat /\ SizeMod = Base * m7 
      /\ m2 \in Nat /\ m3 \in Nat /\ m4 \in Nat /\ m5 \in Nat /\ m6 \in Nat /\ m7 \in Nat
  BY SizeModIs, RxAssumption
<1>a. m3 = Base * m2 /\ m4 = Base * m3 /\ m5 = Base * m4 /\ m6 = Base * m5 /\ m7 = Base * m6 /\ m2 = Base * Base
  OBVIOUS
<1>b. /\ s(1) = n /\ \A k \in 1 .. 8 : s(k) \in Nat
      /\ s(2) = s(1) \div Base /\ s(3) = s(2) \div Base /\ s(4) = s(3) \div Base
      /\ s(5) = s(4) \div Base /\ s(6) = s(5) \div Base /\ s(7) = s(6) \div Base /\ s(8) = s(7) \div Base
  BY ShiftsAt
<1> HIDE DEF m2, m3, m4, m5, m6, m7, s
<1>1. s(2) < m7
  BY <1>0, <1>b, ShiftedBelow
<1>2. s(3) < m6
  BY <1>0, <1>a, <1>b, <1>1, ShiftedBelow
<1>3. s(4) < m5
  BY <1>0, <1>a, <1>b, <1>2, ShiftedBelow
<1>4. s(5) < m4
  BY <1>0, <1>a, <1>b, <1>3, ShiftedBelow
<1>5. s(6) < m3
  BY <1>0, <1>a, <1>b, <1>4, ShiftedBelow
<1>6. s(7) < m2
  BY <1>0, <1>a, <1>b, <1>5, ShiftedBelow
<1>7. s(8) < Base
  BY <1>0, <1>a, <1>b, <1>6, ShiftedBelow
<1>8. s(8) % Base = s(8)
  BY <1>b, <1>7, SmallMod, SMTT(60)
<1> QED BY <1>8 DEF s

(* A length below half of size_t has the top bit of its most significant byte clear. *)
LEMMA HalfBelow ==
  ASSUME NEW a \in Nat, NEW m \in Nat, 2 * a < Base * m
  PROVE  2 * (a \div Base) < m
<1> DEFINE q == a \div Base
<1>0. Base \in Nat
  BY RxAssumption
<1>1. q \in Nat /\ a = q * Base + (a % Base) /\ a % Base >= 0 /\ a % Base \in Int
  BY Shifted, RxAssumption
<1> HIDE DEF q
<1>2. q * Base \in Nat /\ q * Base <= a
  BY <1>0, <1>1, MulNat
<1> SUFFICES ASSUME m <= 2 * q PROVE FALSE
  BY <1>1 DEF q
<1>3. PICK d \in Nat : 2 * q = m + d
  <2>1. 2 * q - m \in Nat /\ 2 * q = m + (2 * q - m)
    BY <1>1
  <2> QED BY <2>1
<1>4. Base * (m + d) = Base * m + Base * d /\ Base * d \in Nat /\ Base * m \in Nat
  BY <1>0, MulNat, SMTT(30)
<1>5. Base * (2 * q) = 2 * (q * Base)
  BY <1>0, <1>1, SMTT(30)
<1> QED BY <1>2, <1>3, <1>4, <1>5

LEMMA ShiftsChain ==
  ASSUME NEW n \in Nat
  PROVE  /\ Shifts(n)[1] = n /\ \A k \in 1 .. 8 : Shifts(n)[k] \in Nat
         /\ Shifts(n)[2] = Shifts(n)[1] \div Base /\ Shifts(n)[3] = Shifts(n)[2] \div Base
         /\ Shifts(n)[4] = Shifts(n)[3] \div Base /\ Shifts(n)[5] = Shifts(n)[4] \div Base
         /\ Shifts(n)[6] = Shifts(n)[5] \div Base /\ Shifts(n)[7] = Shifts(n)[6] \div Base
         /\ Shifts(n)[8] = Shifts(n)[7] \div Base
<1>1. Shifts(n)[1] = n /\ \A k \in 1 .. 8 : Shifts(n)[k] \in Nat
  BY ShiftsAt
<1>2. \A k \in 1 .. 7 : Shifts(n)[k + 1] = Shifts(n)[k] \div Base
  BY ShiftsAt
<1> QED BY <1>1, <1>2

LEMMA TopBitClear ==
  ASSUME NEW n \in Nat, 2 * n < SizeMod
  PROVE  2 * Shifts(n)[8] < Base
<1> DEFINE m2 == Base * Base
           m3 == Base * m2
           m4 == Base * m3
           m5 == Base * m4
           m6 == Base * m5
           m7 == Base * m6
           s(k) == Shifts(n)[k]
<1>0. /\ Base \in Nat /\ SizeMod = Base * m7
      /\ m2 \in Nat /\ m3 \in Nat /\ m4 \in Nat /\ m5 \in Nat /\ m6 \in Nat /\ m7 \in Nat
  BY SizeModIs, RxAssumption
<1>a. m3 = Base * m2 /\ m4 = Base * m3 /\ m5 = Base * m4 /\ m6 = Base * m5 /\ m7 = Base * m6 /\ m2 = Base * Base
  OBVIOUS
<1>b. /\ s(1) = n /\ \A k \in 1 .. 8 : s(k) \in Nat
      /\ s(2) = s(1) \div Base /\ s(3) = s(2) \div Base /\ s(4) = s(3) \div Base
      /\ s(5) = s(4) \div Base /\ s(6) = s(5) \div Base /\ s(7) = s(6) \div Base /\ s(8) = s(7) \div Base
  BY ShiftsChain
<1> HIDE DEF m2, m3, m4, m5, m6, m7, s
<1>1. 2 * s(2) < m7
  BY <1>0, <1>b, HalfBelow
<1>2. 2 * s(3) < m6
  BY <1>0, <1>a, <1>b, <1>1, HalfBelow
<1>3. 2 * s(4) < m5
  BY <1>0, <1>a, <1>b, <1>2, HalfBelow
<1>4. 2 * s(5) < m4
  BY <1>0, <1>a, <1>b, <1>3, HalfBelow
<1>5. 2 * s(6) < m3
  BY <1>0, <1>a, <1>b, <1>4, HalfBelow
<1>6. 2 * s(7) < m2
  BY <1>0, <1>a, <1>b, <1>5, HalfBelow
<1>7. 2 * s(8) < Base
  BY <1>0, <1>a, <1>b, <1>6, HalfBelow
<1> QED BY <1>7 DEF s

---------------------------------------------------------------------------
(* Frames *)

LEMMA LensAre ==
  ASSUME NEW n \in Lens
  PROVE  n \in Nat /\ n < SizeMod
<1>1. n \in Nat /\ 2 * n < SizeMod
  BY RxAssumption
<1>2. SizeMod \in Nat
  BY SizeModIs, MulNat, RxAssumption
<1> QED BY <1>1, <1>2

LEMMA DigitsAt ==
  ASSUME NEW n \in Nat, NEW k \in 1 .. 8
  PROVE  /\ Digits(n, k) \in Seq(Nat) /\ Len(Digits(n, k)) = k
         /\ \A i \in 1 .. k : Digits(n, k)[i] = Shifts(n)[k + 1 - i] % Base
<1>1. ASSUME NEW i \in 1 .. k PROVE Shifts(n)[k + 1 - i] % Base \in Nat
  <2>1. k + 1 - i \in 1 .. 8
    OBVIOUS
  <2>2. PICK a \in Nat : a = Shifts(n)[k + 1 - i]
    BY <2>1, ShiftsAt
  <2>3. a % Base \in 0 .. Base - 1
    BY Shifted
  <2> QED BY <2>2, <2>3, RxAssumption
<1>2. Digits(n, k) \in [1 .. k -> Nat]
  BY <1>1 DEF Digits
<1>3. k \in Nat
  OBVIOUS
<1>4. \A i \in 1 .. k : Digits(n, k)[i] = Shifts(n)[k + 1 - i] % Base
  BY DEF Digits
<1> QED BY <1>2, <1>3, <1>4, GivenAt

Prefixed(T, l, a, s) ==
  /\ l \in Seq(T) /\ Len(l) = Len(s) + 1 /\ l[1] = a
  /\ \A i \in 2 .. Len(l) : l[i] = s[i - 1]

LEMMA PrefixedAt ==
  ASSUME NEW T, NEW a \in T, NEW s \in Seq(T), NEW l, l = <<a>> \o s
  PROVE  Prefixed(T, l, a, s)
BY DEF Prefixed

(* An extended length, place by place, and the length field. *)
IsExtended(l, n) ==
  /\ Len(l) \in {3, 9} /\ l[1] = IF Len(l) = 3 THEN Small ELSE Small + 1
  /\ \A i \in 2 .. Len(l) : l[i] = Shifts(n)[Len(l) + 1 - i] % Base
  /\ Shifts(n)[Len(l) - 1] % Base = Shifts(n)[Len(l) - 1]

IsLenField(l, n) ==
  /\ l \in Seq(Nat) /\ Len(l) \in {1, 3, 9}
  /\ n < Small => Len(l) = 1 /\ l[1] = n
  /\ n >= Small => IsExtended(l, n)

LEMMA LenFieldAt ==
  ASSUME NEW n \in Nat, n < SizeMod
  PROVE  IsLenField(LenField(n), n)
<1> DEFINE l == LenField(n)
<1>0. Small \in Nat /\ Base \in Nat /\ Base * Base \in Nat
  BY RxAssumption, MulNat
<1>1. CASE n < Small
  <2>1. l = <<n>>
    BY <1>1 DEF LenField
  <2>2. l \in Seq(Nat) /\ Len(l) = 1 /\ l[1] = n
    BY <2>1
  <2> HIDE DEF l
  <2> QED BY <1>0, <1>1, <2>2 DEF IsLenField, l
<1>2. CASE n >= Small /\ n < Base * Base
  <2>1. l = <<Small>> \o Digits(n, 2)
    BY <1>0, <1>2 DEF LenField
  <2>2. /\ Digits(n, 2) \in Seq(Nat) /\ Len(Digits(n, 2)) = 2
        /\ \A i \in 1 .. 2 : Digits(n, 2)[i] = Shifts(n)[2 + 1 - i] % Base
    BY DigitsAt
  <2>3. /\ l \in Seq(Nat) /\ Len(l) = 3 /\ l[1] = Small
        /\ \A i \in 2 .. Len(l) : l[i] = Digits(n, 2)[i - 1]
    <3>1. PICK e \in Seq(Nat) : e = Digits(n, 2)
      BY <2>2
    <3> HIDE DEF l
    <3>2. l = <<Small>> \o e /\ Len(e) = 2
      BY <2>1, <2>2, <3>1
    <3>3. Prefixed(Nat, l, Small, e)
      BY <1>0, <3>2, PrefixedAt
    <3>4. l \in Seq(Nat) /\ Len(l) = Len(e) + 1 /\ l[1] = Small /\ \A i \in 2 .. Len(l) : l[i] = e[i - 1]
      BY <3>3 DEF Prefixed
    <3>5. Len(l) = 3
      BY <3>2, <3>4
    <3> QED BY <3>1, <3>4, <3>5, Zenon
  <2> HIDE DEF l
  <2>4. ASSUME NEW i \in 2 .. Len(l) PROVE l[i] = Shifts(n)[Len(l) + 1 - i] % Base
    <3>1. i - 1 \in 1 .. 2 /\ 2 + 1 - (i - 1) = Len(l) + 1 - i
      BY <2>3
    <3> QED BY <2>2, <2>3, <3>1
  <2>5. Shifts(n)[Len(l) - 1] % Base = Shifts(n)[Len(l) - 1]
    <3>1. Len(l) - 1 = 2
      BY <2>3
    <3> QED BY <1>2, <3>1, TopOfTwo
  <2>6. ~(n < Small)
    BY <1>0, <1>2
  <2>7. IsExtended(l, n)
    BY <2>3, <2>4, <2>5 DEF IsExtended
  <2> QED BY <2>3, <2>6, <2>7 DEF l, IsLenField
<1>3. CASE n >= Small /\ n >= Base * Base
  <2>1. l = <<Small + 1>> \o Digits(n, 8)
    BY <1>0, <1>3 DEF LenField
  <2>2. /\ Digits(n, 8) \in Seq(Nat) /\ Len(Digits(n, 8)) = 8
        /\ \A i \in 1 .. 8 : Digits(n, 8)[i] = Shifts(n)[8 + 1 - i] % Base
    BY DigitsAt
  <2>3. /\ l \in Seq(Nat) /\ Len(l) = 9 /\ l[1] = Small + 1
        /\ \A i \in 2 .. Len(l) : l[i] = Digits(n, 8)[i - 1]
    <3>0. PICK a \in Nat : a = Small + 1
      BY <1>0
    <3>1. PICK e \in Seq(Nat) : e = Digits(n, 8)
      BY <2>2
    <3> HIDE DEF l
    <3>2. l = <<a>> \o e /\ Len(e) = 8
      BY <2>1, <2>2, <3>0, <3>1
    <3>3. Prefixed(Nat, l, a, e)
      BY <3>2, PrefixedAt
    <3>4. l \in Seq(Nat) /\ Len(l) = Len(e) + 1 /\ l[1] = a /\ \A i \in 2 .. Len(l) : l[i] = e[i - 1]
      BY <3>3 DEF Prefixed
    <3>5. Len(l) = 9
      BY <3>2, <3>4
    <3> QED BY <3>0, <3>1, <3>4, <3>5, Zenon
  <2> HIDE DEF l
  <2>4. ASSUME NEW i \in 2 .. Len(l) PROVE l[i] = Shifts(n)[Len(l) + 1 - i] % Base
    <3>1. i - 1 \in 1 .. 8 /\ 8 + 1 - (i - 1) = Len(l) + 1 - i
      BY <2>3
    <3> QED BY <2>2, <2>3, <3>1
  <2>5. Shifts(n)[Len(l) - 1] % Base = Shifts(n)[Len(l) - 1]
    <3>1. Len(l) - 1 = 8
      BY <2>3
    <3> QED BY <3>1, TopOfEight
  <2>6. ~(n < Small)
    BY <1>0, <1>3
  <2>7. IsExtended(l, n)
    BY <2>3, <2>4, <2>5 DEF IsExtended
  <2> QED BY <2>3, <2>6, <2>7 DEF l, IsLenField
<1> QED BY <1>0, <1>1, <1>2, <1>3

LEMMA KeyByteIs ==
  ASSUME NEW key \in Keys, NEW i \in 0 .. 3
  PROVE  KeyByte(key, i) \in {0, 1}
<1>1. key \in Nat
  BY RxAssumption
<1>2. <<1, 2, 4, 8>>[i + 1] \in {1, 2, 4, 8}
  OBVIOUS
<1> DEFINE d == <<1, 2, 4, 8>>[i + 1]
<1>3. d \in {1, 2, 4, 8}
  BY <1>2
<1> HIDE DEF d
<1>4. (key \div d) % 2 \in {0, 1}
  BY <1>1, <1>3
<1> QED BY <1>4 DEF KeyByte, d

(* A key bit applied twice is gone; one of zero does nothing. *)
LEMMA MaskTwice ==
  ASSUME NEW v \in ByteValues, NEW k \in {0, 1}
  PROVE  /\ Byte(v) \in Bytes /\ Mask(Byte(v), k) \in Bytes
         /\ Mask(Mask(Byte(v), k), k) = Byte(v)
         /\ k = 0 => Mask(Byte(v), k) = Byte(v)
<1>1. (0 + k) % 2 = k /\ (k + k) % 2 = 0
  OBVIOUS
<1>2. Byte(v) = [v |-> v, x |-> 0]
  BY DEF Byte
<1>3. Mask([v |-> v, x |-> 0], k) = [v |-> v, x |-> k]
  BY <1>1 DEF Mask
<1>4. Mask([v |-> v, x |-> k], k) = [v |-> v, x |-> 0]
  BY <1>1 DEF Mask
<1>5. [v |-> v, x |-> 0] \in Bytes /\ [v |-> v, x |-> k] \in Bytes
  BY DEF Bytes
<1> QED BY <1>2, <1>3, <1>4, <1>5

(* Four sequences one after the other. *)
JoinedOf(T, s, a, b, c, d) ==
  /\ s \in Seq(T) /\ Len(s) = Len(a) + Len(b) + Len(c) + Len(d)
  /\ \A i \in 1 .. Len(a) : s[i] = a[i]
  /\ \A i \in 1 .. Len(b) : s[Len(a) + i] = b[i]
  /\ \A i \in 1 .. Len(c) : s[Len(a) + Len(b) + i] = c[i]
  /\ \A i \in 1 .. Len(d) : s[Len(a) + Len(b) + Len(c) + i] = d[i]

LEMMA JoinedAt ==
  ASSUME NEW T, NEW a \in Seq(T), NEW b \in Seq(T), NEW c \in Seq(T), NEW d \in Seq(T)
  PROVE  JoinedOf(T, a \o b \o c \o d, a, b, c, d)
<1> DEFINE s == a \o b \o c \o d
<1>0. /\ Len(a) \in Nat /\ Len(b) \in Nat /\ Len(c) \in Nat /\ Len(d) \in Nat
  OBVIOUS
<1>1. s \in Seq(T) /\ Len(s) = Len(a) + Len(b) + Len(c) + Len(d)
  OBVIOUS
<1>2. ASSUME NEW i \in 1 .. Len(a) PROVE s[i] = a[i]
  OBVIOUS
<1>3. ASSUME NEW i \in 1 .. Len(b) PROVE s[Len(a) + i] = b[i]
  BY SMTT(60)
<1>4. ASSUME NEW i \in 1 .. Len(c) PROVE s[Len(a) + Len(b) + i] = c[i]
  BY SMTT(60)
<1>5. ASSUME NEW i \in 1 .. Len(d) PROVE s[Len(a) + Len(b) + Len(c) + i] = d[i]
  OBVIOUS
<1> HIDE DEF s
<1>6. JoinedOf(T, s, a, b, c, d)
  BY <1>1, <1>2, <1>3, <1>4, <1>5 DEF JoinedOf
<1> QED BY <1>6 DEF s

(* A frame, place by place. *)
IsFrame(fr, op, n, masked, key, seq) ==
  LET l == LenField(n)
      h == 1 + Len(l)
      p == h + (IF masked THEN 4 ELSE 0)
  IN
  /\ fr \in Seq(Bytes) /\ Len(fr) = p + n
  /\ fr[1] = Byte(op) /\ fr[2] = Byte([masked |-> masked, n |-> l[1]])
  /\ \A i \in 3 .. h : fr[i] = Byte(l[i - 1])
  /\ masked => \A i \in 1 .. 4 : fr[h + i] = Byte(KeyByte(key, i - 1))
  /\ \A i \in 1 .. n : fr[p + i] = IF masked THEN Mask(Byte(<<seq, i>>), KeyByte(key, (i - 1) % 4))
                                            ELSE Byte(<<seq, i>>)

LEMMA FrameAt ==
  ASSUME NEW op \in DataOps \cup ControlOps, NEW n \in Nat, n < SizeMod, NEW masked \in BOOLEAN,
         NEW key \in Keys, NEW seq \in Nat
  PROVE  IsFrame(Frame(op, n, masked, key, seq), op, n, masked, key, seq)
<1> DEFINE l == LenField(n)
           fr == Frame(op, n, masked, key, seq)
           a == <<Byte(op), Byte([masked |-> masked, n |-> l[1]])>>
           b == [i \in 1 .. Len(l) - 1 |-> Byte(l[i + 1])]
           c == IF masked THEN [i \in 1 .. 4 |-> Byte(KeyByte(key, i - 1))] ELSE <<>>
           d == [i \in 1 .. n |-> IF masked THEN Mask(Byte(<<seq, i>>), KeyByte(key, (i - 1) % 4))
                                            ELSE Byte(<<seq, i>>)]
<1>0. fr = a \o b \o c \o d
  BY DEF Frame
<1>1. l \in Seq(Nat) /\ Len(l) \in Nat \ {0} /\ l[1] \in Nat
  <2>1. l \in Seq(Nat) /\ Len(l) \in {1, 3, 9}
    BY LenFieldAt DEF IsLenField
  <2> HIDE DEF l
  <2> QED BY <2>1
<1> HIDE DEF l
<1>2. a \in Seq(Bytes) /\ Len(a) = 2 /\ a[1] = Byte(op) /\ a[2] = Byte([masked |-> masked, n |-> l[1]])
  <2>1. Byte(op) \in Bytes /\ Byte([masked |-> masked, n |-> l[1]]) \in Bytes
    BY <1>1 DEF Byte, Bytes, ByteValues
  <2> QED BY <2>1
<1>3. b \in Seq(Bytes) /\ Len(b) = Len(l) - 1 /\ \A i \in 1 .. Len(l) - 1 : b[i] = Byte(l[i + 1])
  <2>1. ASSUME NEW i \in 1 .. Len(l) - 1 PROVE Byte(l[i + 1]) \in Bytes
    BY <1>1 DEF Byte, Bytes, ByteValues
  <2>2. b \in [1 .. Len(l) - 1 -> Bytes] /\ Len(l) - 1 \in Nat
    BY <1>1, <2>1, SMTT(60)
  <2> QED BY <2>2, GivenAt, ZenonT(60)
<1>4. /\ c \in Seq(Bytes) /\ Len(c) = IF masked THEN 4 ELSE 0
      /\ masked => \A i \in 1 .. 4 : c[i] = Byte(KeyByte(key, i - 1))
  <2>1. ASSUME NEW i \in 1 .. 4 PROVE Byte(KeyByte(key, i - 1)) \in Bytes
    <3>1. i - 1 \in 0 .. 3
      OBVIOUS
    <3>2. KeyByte(key, i - 1) \in Nat
      BY <3>1, KeyByteIs
    <3> QED BY <3>2 DEF Byte, Bytes, ByteValues
  <2>2. CASE masked
    <3> DEFINE e == [i \in 1 .. 4 |-> Byte(KeyByte(key, i - 1))]
    <3>1. e \in [1 .. 4 -> Bytes]
      BY <2>1
    <3>2. e \in Seq(Bytes) /\ Len(e) = 4
      BY <3>1, GivenAt
    <3>3. \A i \in 1 .. 4 : e[i] = Byte(KeyByte(key, i - 1))
      OBVIOUS
    <3>4. c = e
      BY <2>2
    <3> HIDE DEF c, e
    <3> QED BY <2>2, <3>2, <3>3, <3>4
  <2>3. CASE ~masked
    BY <2>3
  <2> QED BY <2>2, <2>3
<1>5. d \in Seq(Bytes) /\ Len(d) = n
  <2>1. ASSUME NEW i \in 1 .. n PROVE d[i] \in Bytes
    <3>1. (i - 1) % 4 \in 0 .. 3
      OBVIOUS
    <3>2. KeyByte(key, (i - 1) % 4) \in {0, 1}
      BY <3>1, KeyByteIs
    <3>3. <<seq, i>> \in ByteValues
      BY DEF ByteValues
    <3>4. Mask(Byte(<<seq, i>>), KeyByte(key, (i - 1) % 4)) \in Bytes /\ Byte(<<seq, i>>) \in Bytes
      BY <3>2, <3>3, MaskTwice
    <3> QED BY <3>4
  <2>2. d \in [1 .. n -> Bytes]
    BY <2>1
  <2> QED BY <2>2, GivenAt
<1>6. \A i \in 1 .. n : d[i] = IF masked THEN Mask(Byte(<<seq, i>>), KeyByte(key, (i - 1) % 4))
                                          ELSE Byte(<<seq, i>>)
  OBVIOUS
<1> DEFINE h == 1 + Len(l)
           p == h + (IF masked THEN 4 ELSE 0)
<1> HIDE DEF a, b, c, d, fr
<1>7. /\ fr \in Seq(Bytes) /\ Len(fr) = Len(a) + Len(b) + Len(c) + Len(d)
      /\ \A i \in 1 .. Len(a) : fr[i] = a[i]
      /\ \A i \in 1 .. Len(b) : fr[Len(a) + i] = b[i]
      /\ \A i \in 1 .. Len(c) : fr[Len(a) + Len(b) + i] = c[i]
      /\ \A i \in 1 .. Len(d) : fr[Len(a) + Len(b) + Len(c) + i] = d[i]
  <2>1. a \in Seq(Bytes) /\ b \in Seq(Bytes) /\ c \in Seq(Bytes) /\ d \in Seq(Bytes)
    BY <1>2, <1>3, <1>4, <1>5
  <2>2. JoinedOf(Bytes, a \o b \o c \o d, a, b, c, d)
    BY <2>1, JoinedAt
  <2> QED BY <1>0, <2>2 DEF JoinedOf
<1>8. Len(a) = 2 /\ Len(a) + Len(b) = h /\ Len(a) + Len(b) + Len(c) = p /\ h \in Nat /\ p \in Nat
  BY <1>1, <1>2, <1>3, <1>4, SMTT(60)
<1>9. fr[1] = Byte(op) /\ fr[2] = Byte([masked |-> masked, n |-> l[1]])
  BY <1>2, <1>7
<1>10. ASSUME NEW i \in 3 .. h PROVE fr[i] = Byte(l[i - 1])
  <2>1. i - 2 \in 1 .. Len(l) - 1 /\ 2 + (i - 2) = i /\ (i - 2) + 1 = i - 1
    BY <1>1
  <2>2. fr[2 + (i - 2)] = b[i - 2] /\ b[i - 2] = Byte(l[(i - 2) + 1])
    BY <1>3, <1>7, <1>8, <2>1
  <2> QED BY <2>1, <2>2
<1> HIDE DEF h, p
<1>11. ASSUME masked, NEW i \in 1 .. 4 PROVE fr[h + i] = Byte(KeyByte(key, i - 1))
  <2>1. Len(c) = 4
    BY <1>4, <1>11
  <2> QED BY <1>4, <1>7, <1>8, <1>11, <2>1
<1>12. ASSUME NEW i \in 1 .. n PROVE fr[p + i] = d[i]
  BY <1>5, <1>7, <1>8
<1>13. Len(fr) = p + n
  BY <1>5, <1>7, <1>8
<1> QED BY <1>6, <1>7, <1>9, <1>10, <1>11, <1>12, <1>13 DEF h, p, fr, l, IsFrame

---------------------------------------------------------------------------
(* Runs of bytes, and the type of a message *)

IsRun(r, f, a, b) ==
  /\ r \in Seq(Bytes) /\ Len(r) = b - a
  /\ \A k \in 1 .. b - a : r[k] = Byte(<<f, a + k>>)

LEMMA RunIs ==
  ASSUME NEW f \in Nat, NEW a \in Nat, NEW b \in Nat, a <= b
  PROVE  IsRun(Run(f, a, b), f, a, b)
<1>1. ASSUME NEW k \in 1 .. b - a PROVE Byte(<<f, a + k>>) \in Bytes
  <2>1. <<f, a + k>> \in ByteValues
    BY DEF ByteValues
  <2> QED BY <2>1, MaskTwice
<1>2. Run(f, a, b) \in [1 .. b - a -> Bytes] /\ b - a \in Nat
  BY <1>1 DEF Run
<1>3. \A k \in 1 .. b - a : Run(f, a, b)[k] = Byte(<<f, a + k>>)
  BY DEF Run
<1>4. Run(f, a, b) \in Seq(Bytes) /\ Len(Run(f, a, b)) = b - a
  BY <1>2, GivenAt
<1> QED BY <1>3, <1>4 DEF IsRun

LEMMA RunEmpty ==
  ASSUME NEW f \in Nat, NEW a \in Nat
  PROVE  Run(f, a, a) = <<>>
<1>0. a <= a /\ a - a = 0
  OBVIOUS
<1>1. Run(f, a, a) \in Seq(Bytes) /\ Len(Run(f, a, a)) = 0
  BY <1>0, RunIs DEF IsRun
<1> QED BY <1>1, EmptySeq

LEMMA RunJoin ==
  ASSUME NEW f \in Nat, NEW a \in Nat, NEW b \in Nat, NEW c \in Nat, a <= b, b <= c
  PROVE  Run(f, a, b) \o Run(f, b, c) = Run(f, a, c)
<1> DEFINE r == Run(f, a, b)
           s == Run(f, b, c)
           t == Run(f, a, c)
           u == r \o s
<1>1. /\ r \in Seq(Bytes) /\ Len(r) = b - a /\ \A k \in 1 .. b - a : r[k] = Byte(<<f, a + k>>)
      /\ s \in Seq(Bytes) /\ Len(s) = c - b /\ \A k \in 1 .. c - b : s[k] = Byte(<<f, b + k>>)
      /\ t \in Seq(Bytes) /\ Len(t) = c - a /\ \A k \in 1 .. c - a : t[k] = Byte(<<f, a + k>>)
  <2>1. a <= c
    OBVIOUS
  <2>2. IsRun(r, f, a, b) /\ IsRun(s, f, b, c) /\ IsRun(t, f, a, c)
    BY <2>1, RunIs
  <2> HIDE DEF r, s, t
  <2> QED BY <2>2 DEF IsRun
<1> HIDE DEF r, s, t
<1>2. /\ u \in Seq(Bytes) /\ Len(u) = c - a
      /\ \A i \in 1 .. b - a : u[i] = r[i]
      /\ \A i \in (b - a) + 1 .. c - a : u[i] = s[i - (b - a)]
  <2>0. r \in Seq(Bytes) /\ s \in Seq(Bytes) /\ Len(r) = b - a /\ Len(s) = c - b
    BY <1>1
  <2>1. /\ u \in Seq(Bytes) /\ Len(u) = Len(r) + Len(s)
        /\ \A i \in 1 .. Len(r) : u[i] = r[i]
        /\ \A i \in Len(r) + 1 .. Len(r) + Len(s) : u[i] = s[i - Len(r)]
    BY <2>0, ConcatAt, Zenon
  <2>2. Len(r) + Len(s) = c - a
    BY <2>0
  <2> QED BY <2>0, <2>1, <2>2, Zenon
<1> HIDE DEF u
<1>3. ASSUME NEW i \in 1 .. c - a PROVE u[i] = t[i]
  <2>1. CASE i \in 1 .. b - a
    BY <1>1, <1>2, <2>1
  <2>2. CASE i \in (b - a) + 1 .. c - a
    <3>1. i - (b - a) \in 1 .. c - b /\ b + (i - (b - a)) = a + i
      BY <2>2
    <3> QED BY <1>1, <1>2, <2>2, <3>1
  <2> QED BY <2>1, <2>2
<1>4. u = t
  BY <1>1, <1>2, <1>3, SameSeq
<1> QED BY <1>4 DEF u, r, s, t

LEMMA RunMore ==
  ASSUME NEW f \in Nat, NEW a \in Nat, NEW b \in Nat, a <= b
  PROVE  Append(Run(f, a, b), Byte(<<f, b + 1>>)) = Run(f, a, b + 1)
<1> DEFINE r == Run(f, a, b)
           t == Run(f, a, b + 1)
           x == Byte(<<f, b + 1>>)
           u == Append(r, x)
<1>1. /\ r \in Seq(Bytes) /\ Len(r) = b - a /\ \A k \in 1 .. b - a : r[k] = Byte(<<f, a + k>>)
      /\ t \in Seq(Bytes) /\ Len(t) = (b + 1) - a /\ \A k \in 1 .. (b + 1) - a : t[k] = Byte(<<f, a + k>>)
  <2>1. a <= b + 1 /\ b + 1 \in Nat
    OBVIOUS
  <2>2. IsRun(r, f, a, b) /\ IsRun(t, f, a, b + 1)
    BY <2>1, RunIs
  <2> HIDE DEF r, t
  <2> QED BY <2>2 DEF IsRun
<1>2. x \in Bytes
  <2>1. <<f, b + 1>> \in ByteValues
    BY DEF ByteValues
  <2> QED BY <2>1, MaskTwice
<1>3. (b + 1) - a = (b - a) + 1 /\ a + ((b - a) + 1) = b + 1
  OBVIOUS
<1>4. t[(b - a) + 1] = x
  BY <1>1, <1>3
<1> HIDE DEF r, t, x
<1>5. u \in Seq(Bytes) /\ Len(u) = (b - a) + 1 /\ (\A i \in 1 .. b - a : u[i] = r[i]) /\ u[(b - a) + 1] = x
  BY <1>1, <1>2, AppendAt
<1> HIDE DEF u
<1>6. ASSUME NEW i \in 1 .. (b - a) + 1 PROVE u[i] = t[i]
  <2>1. i \in 1 .. b - a \/ i = (b - a) + 1
    OBVIOUS
  <2> QED BY <1>1, <1>3, <1>4, <1>5, <2>1
<1>7. u = t
  BY <1>1, <1>3, <1>5, <1>6, SameSeq
<1> QED BY <1>7 DEF u, r, t, x

LEMMA LargestIn ==
  ASSUME NEW f \in Nat, NEW S, S \subseteq 1 .. f, S # {}
  PROVE  \E x \in S : \A y \in S : y <= x
<1> DEFINE D == {f - i : i \in S}
<1>1. D \subseteq Nat /\ D # {}
  <2>1. \A i \in S : f - i \in Nat
    OBVIOUS
  <2> QED BY <2>1, Zenon
<1>2. PICK d \in D : \A e \in D : d <= e
  <2> HIDE DEF D
  <2> QED BY <1>1, SmallestIn
<1>3. PICK x \in S : d = f - x
  OBVIOUS
<1>4. ASSUME NEW y \in S PROVE y <= x
  <2>1. f - y \in D /\ y \in 1 .. f /\ x \in 1 .. f
    OBVIOUS
  <2>2. d <= f - y
    BY <1>2, <2>1
  <2> QED BY <1>3, <2>1, <2>2
<1> QED BY <1>4

LEMMA BinarySame ==
  ASSUME NEW f \in Nat, NEW u, NEW w, \A i \in 1 .. f : u[i] = w[i]
  PROVE  BinaryAt(u, f) = BinaryAt(w, f)
<1> DEFINE S == Starts(u, f)
           x == CHOOSE i \in S : \A j \in S : j <= i
<1>1. Starts(w, f) = S /\ S \subseteq 1 .. f
  BY DEF Starts
<1>2. CASE S = {}
  BY <1>1, <1>2 DEF BinaryAt
<1>3. CASE S # {}
  <2>1. \E i \in S : \A j \in S : j <= i
    BY <1>1, <1>3, LargestIn
  <2>2. x \in S
    BY <2>1
  <2>3. u[x] = w[x]
    BY <1>1, <2>2
  <2>4. BinaryAt(u, f) = (S # {} /\ u[x].op = "BINARY") /\ BinaryAt(w, f) = (S # {} /\ w[x].op = "BINARY")
    BY <1>1 DEF BinaryAt
  <2> QED BY <2>3, <2>4
<1> QED BY <1>2, <1>3

LEMMA BinaryNext ==
  ASSUME NEW f \in Nat \ {0}, NEW wr
  PROVE  BinaryAt(wr, f) = IF wr[f].op \in {"TEXT", "BINARY"} THEN wr[f].op = "BINARY"
                                                              ELSE BinaryAt(wr, f - 1)
<1> DEFINE S == Starts(wr, f)
           x == CHOOSE i \in S : \A j \in S : j <= i
<1>1. CASE wr[f].op \in {"TEXT", "BINARY"}
  <2>1. f \in S /\ \A j \in S : j \in 1 .. f
    BY <1>1 DEF Starts
  <2>2. \A j \in S : j <= f
    BY <2>1
  <2>3. x \in S /\ \A j \in S : j <= x
    BY <2>1, <2>2
  <2>4. x = f
    BY <2>1, <2>2, <2>3
  <2>5. BinaryAt(wr, f) = (S # {} /\ wr[x].op = "BINARY")
    BY DEF BinaryAt
  <2> QED BY <1>1, <2>1, <2>4, <2>5
<1>2. CASE wr[f].op \notin {"TEXT", "BINARY"}
  <2>1. ASSUME NEW i PROVE i \in Starts(wr, f) <=> i \in Starts(wr, f - 1)
    BY <1>2 DEF Starts
  <2>2. Starts(wr, f) = Starts(wr, f - 1)
    BY <2>1
  <2> QED BY <1>2, <2>2 DEF BinaryAt
<1> QED BY <1>1, <1>2

LEMMA BinaryIsBoolean ==
  ASSUME NEW f, NEW wr
  PROVE  BinaryAt(wr, f) \in BOOLEAN
BY DEF BinaryAt

---------------------------------------------------------------------------
(* What was sent and what was got *)

LEMMA SplitLast ==
  ASSUME NEW T, NEW n \in Nat, NEW g \in [1 .. n + 1 -> T], NEW h \in [1 .. n -> T],
         \A i \in 1 .. n : g[i] = h[i]
  PROVE  /\ h \in Seq(T) /\ g[n + 1] \in T
         /\ g = Append(h, g[n + 1])
<1>1. g \in Seq(T) /\ Len(g) = n + 1 /\ h \in Seq(T) /\ Len(h) = n /\ g[n + 1] \in T
  BY GivenAt
<1> DEFINE a == Append(h, g[n + 1])
<1>2. a \in Seq(T) /\ Len(a) = n + 1 /\ (\A i \in 1 .. n : a[i] = h[i]) /\ a[n + 1] = g[n + 1]
  BY <1>1, AppendAt
<1> HIDE DEF a
<1>3. ASSUME NEW i \in 1 .. n + 1 PROVE g[i] = a[i]
  <2>1. i \in 1 .. n \/ i = n + 1
    OBVIOUS
  <2> QED BY <1>2, <2>1
<1>4. g = a
  BY <1>1, <1>2, <1>3, SameSeq
<1> QED BY <1>1, <1>4 DEF a

LEMMA FlattenEmpty ==
  ASSUME NEW s, s = <<>>
  PROVE  FlattenSeq(s) = <<>>
BY DEF FlattenSeq

LEMMA HeardIs ==
  ASSUME NEW wr, NEW ro, NEW i \in Nat, NEW m \in Nat
  PROVE  HeardOf(wr, ro, i, m) \in Seq(Bytes) /\ HeardOf(wr, ro, i, 0) = <<>>
<1>1. 0 <= m /\ 0 \in Nat
  OBVIOUS
<1>2. Run(i, 0, m) \in Seq(Bytes)
  BY <1>1, RunIs DEF IsRun
<1>3. Run(i, 0, 0) = <<>>
  BY RunEmpty
<1>4. <<>> \in Seq(Bytes)
  OBVIOUS
<1> QED BY <1>2, <1>3, <1>4 DEF HeardOf

LEMMA HeardMore ==
  ASSUME NEW wr, NEW ro, NEW i \in Nat, NEW m \in Nat, NEW e \in Nat, m <= e
  PROVE  /\ wr[i].op \in HeardBy(ro) => HeardOf(wr, ro, i, e) = HeardOf(wr, ro, i, m) \o Run(i, m, e)
         /\ wr[i].op \notin HeardBy(ro) => HeardOf(wr, ro, i, e) = HeardOf(wr, ro, i, m)
<1>1. Run(i, 0, m) \o Run(i, m, e) = Run(i, 0, e)
  <2>1. 0 \in Nat /\ 0 <= m
    OBVIOUS
  <2> QED BY <2>1, RunJoin, ZenonT(60)
<1> QED BY <1>1 DEF HeardOf

LEMMA FrameFields ==
  ASSUME NEW wr \in Seq(Frames), NEW i \in 1 .. Len(wr)
  PROVE  wr[i] \in Frames /\ wr[i].op \in DataOps \cup ControlOps /\ wr[i].n \in Nat /\ wr[i].n < SizeMod
<1>1. wr[i] \in Frames
  OBVIOUS
<1>2. wr[i].op \in DataOps \cup ControlOps /\ wr[i].n \in Lens
  BY <1>1 DEF Frames
<1> QED BY <1>1, <1>2, LensAre

LEMMA SentNone ==
  ASSUME NEW wr, NEW ro
  PROVE  SentOf(wr, ro, 0) = <<>>
<1>1. [i \in 1 .. 0 |-> HeardOf(wr, ro, i, wr[i].n)] = <<>>
  OBVIOUS
<1> QED BY <1>1, FlattenEmpty DEF SentOf

LEMMA SentNext ==
  ASSUME NEW wr \in Seq(Frames), NEW ro, NEW k \in Nat, k < Len(wr)
  PROVE  /\ SentOf(wr, ro, k) \in Seq(Bytes)
         /\ SentOf(wr, ro, k + 1) = SentOf(wr, ro, k) \o HeardOf(wr, ro, k + 1, wr[k + 1].n)
<1> DEFINE h == [i \in 1 .. k |-> HeardOf(wr, ro, i, wr[i].n)]
           g == [i \in 1 .. k + 1 |-> HeardOf(wr, ro, i, wr[i].n)]
<1>1. ASSUME NEW i \in 1 .. k + 1 PROVE HeardOf(wr, ro, i, wr[i].n) \in Seq(Bytes)
  <2>1. i \in 1 .. Len(wr) /\ i \in Nat
    OBVIOUS
  <2>2. wr[i].n \in Nat
    BY <2>1, FrameFields
  <2> QED BY <2>1, <2>2, HeardIs
<1>2. g \in [1 .. k + 1 -> Seq(Bytes)] /\ h \in [1 .. k -> Seq(Bytes)]
  BY <1>1
<1>3. (\A i \in 1 .. k : g[i] = h[i]) /\ g[k + 1] = HeardOf(wr, ro, k + 1, wr[k + 1].n)
  OBVIOUS
<1>4. SentOf(wr, ro, k) = FlattenSeq(h) /\ SentOf(wr, ro, k + 1) = FlattenSeq(g)
  BY DEF SentOf
<1> HIDE DEF g, h
<1>5. h \in Seq(Seq(Bytes)) /\ g[k + 1] \in Seq(Bytes) /\ g = Append(h, g[k + 1])
  BY <1>2, <1>3, SplitLast
<1>6. FlattenSeq(h) \in Seq(Bytes) /\ FlattenSeq(Append(h, g[k + 1])) = FlattenSeq(h) \o g[k + 1]
  BY <1>5, FlattenMore
<1> QED BY <1>3, <1>4, <1>5, <1>6

LEMMA SentSame ==
  ASSUME NEW u, NEW w, NEW ro, NEW k \in Nat, \A i \in 1 .. k : u[i] = w[i]
  PROVE  SentOf(u, ro, k) = SentOf(w, ro, k)
<1>1. ASSUME NEW i \in 1 .. k PROVE HeardOf(u, ro, i, u[i].n) = HeardOf(w, ro, i, w[i].n)
  BY DEF HeardOf
<1>2. [i \in 1 .. k |-> HeardOf(u, ro, i, u[i].n)] = [i \in 1 .. k |-> HeardOf(w, ro, i, w[i].n)]
  BY <1>1
<1> QED BY <1>2 DEF SentOf

LEMMA GotMore ==
  ASSUME NEW rcv \in Seq(Pieces), NEW pc \in Pieces
  PROVE  GotOf(rcv) \in Seq(Bytes) /\ GotOf(Append(rcv, pc)) = GotOf(rcv) \o pc.data
<1> DEFINE k == Len(rcv)
           a == Append(rcv, pc)
           h == [i \in 1 .. k |-> rcv[i].data]
           g == [i \in 1 .. k + 1 |-> a[i].data]
<1>1. /\ k \in Nat /\ a \in Seq(Pieces) /\ Len(a) = k + 1
      /\ \A i \in 1 .. k : a[i] = rcv[i] /\ rcv[i] \in Pieces
      /\ a[k + 1] = pc
  OBVIOUS
<1>2. GotOf(rcv) = FlattenSeq(h) /\ GotOf(a) = FlattenSeq(g)
  BY <1>1 DEF GotOf
<1>3. \A q \in Pieces : q.data \in Seq(Bytes)
  BY DEF Pieces
<1> HIDE DEF a, k
<1>4. ASSUME NEW i \in 1 .. k + 1 PROVE a[i].data \in Seq(Bytes)
  <2>1. i \in 1 .. k \/ i = k + 1
    BY <1>1
  <2> QED BY <1>1, <1>3, <2>1
<1>5. g \in [1 .. k + 1 -> Seq(Bytes)] /\ h \in [1 .. k -> Seq(Bytes)]
  BY <1>1, <1>3, <1>4
<1>6. (\A i \in 1 .. k : g[i] = h[i]) /\ g[k + 1] = pc.data
  BY <1>1
<1> HIDE DEF g, h
<1>7. h \in Seq(Seq(Bytes)) /\ g[k + 1] \in Seq(Bytes) /\ g = Append(h, g[k + 1])
  BY <1>1, <1>5, <1>6, SplitLast
<1>8. FlattenSeq(h) \in Seq(Bytes) /\ FlattenSeq(Append(h, g[k + 1])) = FlattenSeq(h) \o g[k + 1]
  BY <1>7, FlattenMore
<1> QED BY <1>2, <1>6, <1>7, <1>8 DEF a

LEMMA GotNone == GotOf(<<>>) = <<>>
<1>1. [i \in 1 .. Len(<<>>) |-> <<>>[i].data] = <<>>
  OBVIOUS
<1> QED BY <1>1, FlattenEmpty DEF GotOf

---------------------------------------------------------------------------
(* The frame that is being read *)

LEMMA RemainsNext ==
  ASSUME NEW w \in Seq(Bytes), w # <<>>, NEW fr \in Seq(Bytes), NEW p \in 1 .. Len(fr), Remains(w, fr, p)
  PROVE  /\ Tail(w) \in Seq(Bytes) /\ Remains(Tail(w), fr, p + 1) /\ Head(w) = fr[p]
         /\ p = Len(fr) => Tail(w) = <<>>
<1> DEFINE t == Tail(w)
<1>0. Len(fr) \in Nat
  OBVIOUS
<1>1. /\ t \in Seq(Bytes) /\ Len(w) \in Nat \ {0} /\ Len(t) = Len(w) - 1
      /\ \A i \in 1 .. Len(w) - 1 : t[i] = w[i + 1]
      /\ Head(w) = w[1] /\ w[1] \in Bytes
  BY TailAt
<1>2. Len(w) = Len(fr) + 1 - p /\ \A i \in 1 .. Len(w) : w[i] = fr[p - 1 + i]
  BY DEF Remains
<1> HIDE DEF t
<1>3. Head(w) = fr[p]
  <2>1. 1 \in 1 .. Len(w) /\ p - 1 + 1 = p
    BY <1>1
  <2> QED BY <1>1, <1>2, <2>1
<1>4. Len(t) = Len(fr) + 1 - (p + 1)
  BY <1>0, <1>1, <1>2
<1>5. ASSUME NEW i \in 1 .. Len(t) PROVE t[i] = fr[(p + 1) - 1 + i]
  <2>1. i \in 1 .. Len(w) - 1 /\ i + 1 \in 1 .. Len(w) /\ p - 1 + (i + 1) = (p + 1) - 1 + i
    BY <1>1
  <2> QED BY <1>1, <1>2, <2>1
<1>6. p = Len(fr) => t = <<>>
  BY <1>0, <1>1, <1>4, EmptySeq
<1> QED BY <1>1, <1>3, <1>4, <1>5, <1>6 DEF Remains, t

(* The frame on the wire, place by place. *)
FrameFacts(key) ==
  LET fr == TheFrame(key) IN
  /\ Cur \in Nat \ {0} /\ Cur \in 1 .. Len(written)
  /\ Op \in DataOps \cup ControlOps /\ N \in Nat /\ N < SizeMod
  /\ HeaderLen \in {2, 4, 10} /\ PayloadAt = HeaderLen + (IF role = "server" THEN 4 ELSE 0)
  /\ fr \in Seq(Bytes) /\ Len(fr) = PayloadAt + N
  /\ fr[1] = Byte(Op)
  /\ N < Small => HeaderLen = 2 /\ fr[2] = Byte([masked |-> role = "server", n |-> N])
  /\ N >= Small =>
       /\ HeaderLen \in {4, 10}
       /\ fr[2] = Byte([masked |-> role = "server", n |-> IF HeaderLen = 4 THEN Small ELSE Small + 1])
       /\ \A i \in 3 .. HeaderLen : fr[i] = Byte(Shifts(N)[HeaderLen + 1 - i] % Base)
       /\ Shifts(N)[HeaderLen - 2] % Base = Shifts(N)[HeaderLen - 2]
  /\ role = "server" => \A i \in 1 .. 4 : fr[HeaderLen + i] = Byte(KeyByte(key, i - 1))
  /\ \A i \in 1 .. N : fr[PayloadAt + i] =
       IF role = "server" THEN Mask(Byte(<<Cur, i>>), KeyByte(key, (i - 1) % 4)) ELSE Byte(<<Cur, i>>)

LEMMA FrameHasFacts ==
  ASSUME RxTypes, Cur > 0, NEW key \in Keys
  PROVE  FrameFacts(key)
<1> DEFINE fr == TheFrame(key)
           l == LenField(N)
           sv == role = "server"
<1>1. written \in Seq(Frames) /\ Cur \in Nat \ {0} /\ Cur \in 1 .. Len(written)
  BY DEF RxTypes, Cur
<1>2. Op \in DataOps \cup ControlOps /\ N \in Nat /\ N < SizeMod
  BY <1>1, FrameFields DEF Op, N
<1>3. fr = Frame(Op, N, sv, key, Cur) /\ sv \in BOOLEAN 
  BY DEF TheFrame
<1>a. HeaderLen = 1 + Len(l) /\ PayloadAt = HeaderLen + (IF sv THEN 4 ELSE 0)
  BY DEF HeaderLen, PayloadAt
<1> HIDE DEF fr, sv
<1>4. /\ fr \in Seq(Bytes) /\ Len(fr) = PayloadAt + N
      /\ fr[1] = Byte(Op) /\ fr[2] = Byte([masked |-> sv, n |-> l[1]])
      /\ \A i \in 3 .. HeaderLen : fr[i] = Byte(l[i - 1])
      /\ sv => \A i \in 1 .. 4 : fr[HeaderLen + i] = Byte(KeyByte(key, i - 1))
      /\ \A i \in 1 .. N : fr[PayloadAt + i] = IF sv THEN Mask(Byte(<<Cur, i>>), KeyByte(key, (i - 1) % 4))
                                                      ELSE Byte(<<Cur, i>>)
  <2>1. IsFrame(fr, Op, N, sv, key, Cur)
    BY <1>1, <1>2, <1>3, FrameAt
  <2> QED BY <1>a, <2>1 DEF IsFrame
<1>5. /\ l \in Seq(Nat) /\ Len(l) \in {1, 3, 9}
      /\ N < Small => Len(l) = 1 /\ l[1] = N
      /\ N >= Small => IsExtended(l, N)
  BY <1>2, LenFieldAt DEF IsLenField
<1> HIDE DEF l
<1>b. HeaderLen = 1 + Len(l)
  BY <1>a
<1>6. HeaderLen \in {2, 4, 10}
  <2>1. PICK k \in {1, 3, 9} : k = Len(l)
    BY <1>5
  <2>2. 1 + k \in {2, 4, 10}
    OBVIOUS
  <2> QED BY <1>b, <2>1, <2>2, Zenon
<1>7. N < Small => HeaderLen = 2 /\ fr[2] = Byte([masked |-> sv, n |-> N])
  <2>1. 1 + 1 = 2
    OBVIOUS
  <2> QED BY <1>b, <1>4, <1>5, <2>1, Zenon
<1>8. ASSUME N >= Small
      PROVE  /\ HeaderLen \in {4, 10}
             /\ fr[2] = Byte([masked |-> sv, n |-> IF HeaderLen = 4 THEN Small ELSE Small + 1])
             /\ \A i \in 3 .. HeaderLen : fr[i] = Byte(Shifts(N)[HeaderLen + 1 - i] % Base)
             /\ Shifts(N)[HeaderLen - 2] % Base = Shifts(N)[HeaderLen - 2]
  <2>1. /\ Len(l) \in {3, 9} /\ l[1] = IF Len(l) = 3 THEN Small ELSE Small + 1
        /\ \A i \in 2 .. Len(l) : l[i] = Shifts(N)[Len(l) + 1 - i] % Base
        /\ Shifts(N)[Len(l) - 1] % Base = Shifts(N)[Len(l) - 1]
    BY <1>5, <1>8 DEF IsExtended
  <2>2. HeaderLen \in {4, 10} /\ (HeaderLen = 4 <=> Len(l) = 3) /\ HeaderLen - 2 = Len(l) - 1
    <3>1. PICK k \in {3, 9} : k = Len(l)
      BY <2>1
    <3>2. 1 + k \in {4, 10} /\ (1 + k = 4 <=> k = 3) /\ (1 + k) - 2 = k - 1
      OBVIOUS
    <3> QED BY <1>b, <3>1, <3>2, Zenon
  <2>3. fr[2] = Byte([masked |-> sv, n |-> IF HeaderLen = 4 THEN Small ELSE Small + 1])
    BY <1>4, <2>1, <2>2
  <2>4. ASSUME NEW i \in 3 .. HeaderLen PROVE fr[i] = Byte(Shifts(N)[HeaderLen + 1 - i] % Base)
    <3>1. i - 1 \in 2 .. Len(l) /\ Len(l) + 1 - (i - 1) = HeaderLen + 1 - i
      BY <1>a, <2>1, <2>2
    <3>2. l[i - 1] = Shifts(N)[HeaderLen + 1 - i] % Base
      BY <2>1, <3>1
    <3> QED BY <1>4, <3>2
  <2> QED BY <2>1, <2>2, <2>3, <2>4
<1> QED BY <1>1, <1>2, <1>a, <1>4, <1>6, <1>7, <1>8 DEF FrameFacts, fr, sv

(* A step of the reader leaves the frame as it is. *)
SameFrame ==
  /\ Cur' = Cur /\ Op' = Op /\ N' = N /\ HeaderLen' = HeaderLen /\ PayloadAt' = PayloadAt
  /\ \A key \in Keys : TheFrame(key)' = TheFrame(key)
  /\ \A m \in Nat : GotTo(m)' =
       (GotOf(received') = SentOf(written, role, Cur - 1) \o HeardOf(written, role, Cur, m))

LEMMA FrameStays ==
  ASSUME written' = written, role' = role
  PROVE  SameFrame
BY DEF SameFrame, Cur, Op, N, HeaderLen, PayloadAt, TheFrame, GotTo

(* Where a step of the reader starts from. *)
ReadAt(key, p) ==
  /\ p \in 1 .. PayloadAt + N
  /\ AtNew(p) \/ AtHdrLen(p) \/ AtLen(p) \/ AtKey(key, p) \/ AtPayload(key, p)
  /\ Head(wire) = TheFrame(key)[p]
  /\ wire' \in Seq(Bytes) /\ Remains(wire', TheFrame(key), p + 1)
  /\ p = PayloadAt + N => wire' = <<>>

LEMMA ReadFrom ==
  ASSUME RxOrdered, Read
  PROVE  Cur > 0 /\ \E key \in Keys : FrameFacts(key) /\ \E p \in Int : ReadAt(key, p)
<1>1. conn = "open" /\ wire # <<>> /\ wire' = Tail(wire) /\ wire \in Seq(Bytes) /\ RxTypes
  BY DEF Read, RxOrdered, RxTypes
<1>2. Busy
  BY <1>1 DEF RxOrdered, Idle
<1>3. PICK key \in Keys : \E p \in 1 .. PayloadAt + N :
        /\ Remains(wire, TheFrame(key), p)
        /\ AtNew(p) \/ AtHdrLen(p) \/ AtLen(p) \/ AtKey(key, p) \/ AtPayload(key, p)
  BY <1>2 DEF Busy
<1>4. PICK p \in 1 .. PayloadAt + N :
        /\ Remains(wire, TheFrame(key), p)
        /\ AtNew(p) \/ AtHdrLen(p) \/ AtLen(p) \/ AtKey(key, p) \/ AtPayload(key, p)
  BY <1>3
<1>5. Cur > 0
  BY <1>2 DEF Busy
<1>6. FrameFacts(key)
  BY <1>1, <1>5, FrameHasFacts
<1> DEFINE fr == TheFrame(key)
<1>7. fr \in Seq(Bytes) /\ Len(fr) = PayloadAt + N /\ PayloadAt + N \in Nat
  BY <1>6 DEF FrameFacts
<1> HIDE DEF fr
<1>8. p \in 1 .. Len(fr) /\ Remains(wire, fr, p)
  BY <1>4, <1>7 DEF fr
<1>9. /\ Tail(wire) \in Seq(Bytes) /\ Remains(Tail(wire), fr, p + 1) /\ Head(wire) = fr[p]
      /\ p = Len(fr) => Tail(wire) = <<>>
  BY <1>1, <1>7, <1>8, RemainsNext
<1>10. ReadAt(key, p)
  BY <1>1, <1>4, <1>7, <1>9 DEF ReadAt, fr
<1> QED BY <1>5, <1>6, <1>10

---------------------------------------------------------------------------
(* What reaches the user *)

LEMMA PieceIsRight ==
  ASSUME NEW wr \in Seq(Frames), NEW f \in 1 .. Len(wr), NEW m \in Nat, NEW e \in Nat, m < e, e <= wr[f].n,
         NEW reason \in {"RECEIVE", "RECEIVE_PONG"}, NEW q,
         q = [reason |-> reason, data |-> Run(f, m, e), binary |-> BinaryAt(wr, f), rest |-> wr[f].n - e]
  PROVE  q \in Pieces /\ PieceIn(wr, q)
<1>0. wr[f].n \in Nat /\ f \in Nat
  BY FrameFields
<1> DEFINE d == Run(f, m, e)
<1>1. d \in Seq(Bytes) /\ Len(d) = e - m /\ \A k \in 1 .. e - m : d[k] = Byte(<<f, m + k>>)
  <2>1. IsRun(d, f, m, e)
    BY <1>0, RunIs
  <2> HIDE DEF d
  <2> QED BY <2>1 DEF IsRun
<1> HIDE DEF d
<1>2. q.data = d /\ q.reason = reason /\ q.binary = BinaryAt(wr, f) /\ q.rest = wr[f].n - e
  BY DEF d
<1>3. 1 \in 1 .. e - m /\ e - m \in 1 .. e - m /\ m + (e - m) = e
  OBVIOUS
<1>4. d[1] = Byte(<<f, m + 1>>) /\ d[e - m] = Byte(<<f, e>>)
  BY <1>1, <1>3
<1>5. d[1].v[1] = f /\ d[e - m].v[2] = e
  BY <1>4 DEF Byte
<1>6. wr[f].n - e \in Nat /\ e + (wr[f].n - e) = wr[f].n
  BY <1>0
<1>7. q \in Pieces
  BY <1>1, <1>6, BinaryIsBoolean DEF Pieces, d
<1>8. PieceIn(wr, q)
  <2>1. Len(q.data) > 0 /\ Len(q.data) = e - m
    BY <1>1, <1>2
  <2>2. q.data[1].v[1] = f
    BY <1>2, <1>5
  <2>3. q.data[Len(q.data)].v[2] = e
    BY <1>2, <1>5, <2>1
  <2>4. q.data[Len(q.data)].v[2] + q.rest = wr[f].n
    BY <1>2, <1>6, <2>3
  <2> QED BY <1>2, <2>1, <2>2, <2>4 DEF PieceIn
<1> QED BY <1>7, <1>8

(* a is g with what is heard of m bytes of frame i after it. *)
IsWith(a, g, wr, ro, i, m) == a = g \o HeardOf(wr, ro, i, m)

LEMMA HeardAfter ==
  ASSUME NEW wr, NEW ro, NEW i \in Nat, NEW m \in Nat, NEW e \in Nat, m <= e, wr[i].op \in HeardBy(ro)
  PROVE  HeardOf(wr, ro, i, e) = HeardOf(wr, ro, i, m) \o Run(i, m, e)
BY HeardMore

LEMMA GotAfter ==
  ASSUME NEW wr, NEW ro, NEW i \in Nat, NEW m \in Nat, NEW e \in Nat, m <= e, wr[i].op \in HeardBy(ro),
         NEW g \in Seq(Bytes), NEW a, IsWith(a, g, wr, ro, i, m)
  PROVE  IsWith(a \o Run(i, m, e), g, wr, ro, i, e)
<1> DEFINE x == HeardOf(wr, ro, i, m)
           d == Run(i, m, e)
<1>1. x \in Seq(Bytes)
  BY HeardIs
<1>2. d \in Seq(Bytes)
  BY RunIs DEF IsRun
<1>3. HeardOf(wr, ro, i, e) = x \o d
  BY HeardAfter, SMTT(60)
<1> HIDE DEF x, d
<1>4. (g \o x) \o d = g \o (x \o d)
  BY <1>1, <1>2, ConcatAssoc, SMTT(60)
<1> QED BY <1>3, <1>4 DEF IsWith, x, d

(* A step that gives the user the bytes from m to e of the current frame. *)
LEMMA CallbackStep ==
  ASSUME RxTypes, PiecesOK, Cur > 0, Op \in HeardBy(role), frame_is_binary = BinaryAt(written, Cur),
         NEW m \in Nat, NEW e \in Nat, m <= e, e <= N, GotTo(m),
         written' = written, role' = role,
         NEW reason \in {"RECEIVE", "RECEIVE_PONG"},
         Callback(reason, Run(Cur, m, e), N - e)
  PROVE  received' \in Seq(Pieces) /\ PiecesOK' /\ GotTo(e)'
<1> DEFINE d == Run(Cur, m, e)
           g == SentOf(written, role, Cur - 1)
<1>0. /\ written \in Seq(Frames) /\ Cur \in 1 .. Len(written) /\ Cur \in Nat /\ received \in Seq(Pieces)
      /\ N = written[Cur].n /\ N \in Nat /\ Op = written[Cur].op
  <2>1. written \in Seq(Frames) /\ Cur \in 1 .. Len(written) /\ Cur \in Nat /\ received \in Seq(Pieces)
    BY DEF RxTypes, Cur
  <2> QED BY <2>1, FrameFields DEF N, Op
<1>1. d \in Seq(Bytes) /\ Len(d) = e - m
  BY <1>0, RunIs DEF IsRun
<1>2. g \in Seq(Bytes)
  <2>1. Cur - 1 \in Nat /\ Cur - 1 < Len(written)
    BY <1>0
  <2> QED BY <1>0, <2>1, SentNext
<1>3. GotOf(received) = g \o HeardOf(written, role, Cur, m)
  BY DEF GotTo
<1>4. written[Cur].op \in HeardBy(role)
  BY <1>0
<1>5. GotTo(e)' = (GotOf(received') = g \o HeardOf(written, role, Cur, e))
  BY FrameStays DEF SameFrame
<1> HIDE DEF g
<1>6. CASE d = <<>>
  <2>1. received' = received
    BY <1>6 DEF Callback
  <2>2. m = e
    BY <1>1, <1>6
  <2> QED BY <1>0, <1>3, <1>5, <2>1, <2>2 DEF PiecesOK
<1>7. CASE d # <<>>
  <2> DEFINE q == [reason |-> reason, data |-> d, binary |-> frame_is_binary, rest |-> N - e]
  <2>1. received' = Append(received, q)
    BY <1>7 DEF Callback
  <2>2. m < e
    <3>1. Len(d) # 0
      BY <1>1, <1>7, EmptySeq
    <3> QED BY <1>1, <3>1
  <2>3. q = [reason |-> reason, data |-> Run(Cur, m, e), binary |-> BinaryAt(written, Cur), rest |-> written[Cur].n - e]
    BY <1>0
  <2>4. q \in Pieces /\ PieceIn(written, q) /\ q.data = d
    <3>1. q.data = d
      OBVIOUS
    <3> HIDE DEF q, d
    <3> QED BY <1>0, <2>2, <2>3, <3>1, PieceIsRight
  <2> HIDE DEF q
  <2>5. GotOf(received') = GotOf(received) \o d
    BY <1>0, <2>1, <2>4, GotMore
  <2>6. GotOf(received') = g \o HeardOf(written, role, Cur, e)
    <3>1. IsWith(GotOf(received), g, written, role, Cur, m)
      BY <1>3 DEF IsWith
    <3>2. IsWith(GotOf(received) \o Run(Cur, m, e), g, written, role, Cur, e)
      BY <1>0, <1>2, <1>4, <3>1, GotAfter
    <3> QED BY <2>5, <3>2 DEF IsWith
  <2>7. received' \in Seq(Pieces) /\ PiecesOK'
    <3>1. /\ received' \in Seq(Pieces) /\ Len(received') = Len(received) + 1 /\ Len(received) \in Nat
          /\ \A i \in 1 .. Len(received) : received'[i] = received[i]
          /\ received'[Len(received) + 1] = q
      BY <1>0, <2>1, <2>4, AppendAt
    <3>2. ASSUME NEW i \in 1 .. Len(received) + 1 PROVE PieceIn(written, received'[i])
      <4>1. i \in 1 .. Len(received) \/ i = Len(received) + 1
        BY <3>1
      <4> QED BY <2>4, <3>1, <4>1 DEF PiecesOK
    <3> QED BY <3>1, <3>2 DEF PiecesOK
  <2> QED BY <1>5, <2>6, <2>7
<1> QED BY <1>6, <1>7

(* A step that takes the bytes from m to e of the current frame out of the buffer. *)
LEMMA SpillStep ==
  ASSUME RxTypes, PiecesOK, PongsOK, conn = "open", Cur > 0, Opened,
         NEW m \in Nat, NEW e \in Nat, m <= e, e <= N, GotTo(m),
         PingFits /\ Op = "PING" => m = 0 /\ e = N,
         written' = written, role' = role, Spill(Run(Cur, m, e), N - e)
  PROVE  /\ received' \in Seq(Pieces) /\ PiecesOK' /\ GotTo(e)'
         /\ pongs' \in Seq(Seq(Bytes)) /\ PongsOK'
         /\ conn' \in {"open", "closed"}
<1> DEFINE d == Run(Cur, m, e)
<1>0. /\ opcode = Op /\ frame_is_binary = BinaryAt(written, Cur) /\ written \in Seq(Frames)
      /\ Cur \in 1 .. Len(written) /\ Cur \in Nat /\ received \in Seq(Pieces) /\ pongs \in Seq(Seq(Bytes))
      /\ N = written[Cur].n /\ Op = written[Cur].op
  BY DEF RxTypes, Opened, Cur, N, Op
<1>1. d \in Seq(Bytes)
  BY <1>0, RunIs DEF IsRun
<1>2. ASSUME UNCHANGED received, Op \notin HeardBy(role)
      PROVE  received' \in Seq(Pieces) /\ PiecesOK' /\ GotTo(e)'
  <2>1. HeardOf(written, role, Cur, e) = HeardOf(written, role, Cur, m)
    BY <1>0, <1>2, HeardMore
  <2>2. GotTo(e)' = (GotOf(received') = SentOf(written, role, Cur - 1) \o HeardOf(written, role, Cur, e))
    BY FrameStays DEF SameFrame
  <2>3. GotTo(e)'
    BY <1>2, <2>1, <2>2 DEF GotTo
  <2>4. PiecesOK'
    BY <1>2 DEF PiecesOK
  <2> QED BY <1>0, <1>2, <2>3, <2>4
<1>3. ASSUME UNCHANGED pongs PROVE pongs' \in Seq(Seq(Bytes)) /\ PongsOK'
  BY <1>0, <1>3 DEF PongsOK
<1>4. CASE /\ opcode \in DataOps /\ Callback("RECEIVE", d, N - e) /\ UNCHANGED <<pongs, closes, conn>>
  <2>1. Op \in HeardBy(role)
    BY <1>0, <1>4 DEF HeardBy
  <2>2. received' \in Seq(Pieces) /\ PiecesOK' /\ GotTo(e)'
    BY <1>0, <1>4, <2>1, CallbackStep
  <2> QED BY <1>3, <1>4, <2>2
<1>5. CASE /\ opcode = "PING"
           /\ \/ pongs' = Append(pongs, d) /\ UNCHANGED conn
              \/ UNCHANGED pongs /\ (IF role = "server" THEN Bail ELSE UNCHANGED conn)
           /\ UNCHANGED <<received, closes>>
  <2>1. Op \notin HeardBy(role) /\ UNCHANGED received /\ conn' \in {"open", "closed"}
    BY <1>0, <1>5 DEF HeardBy, DataOps, Bail
  <2>2. CASE UNCHANGED pongs
    BY <1>2, <1>3, <2>1, <2>2
  <2>3. CASE pongs' = Append(pongs, d)
    <3>1. /\ pongs' \in Seq(Seq(Bytes)) /\ Len(pongs') = Len(pongs) + 1 /\ Len(pongs) \in Nat
          /\ \A i \in 1 .. Len(pongs) : pongs'[i] = pongs[i]
          /\ pongs'[Len(pongs) + 1] = d
      <4> HIDE DEF d
      <4> QED BY <1>0, <1>1, <2>3, AppendAt
    <3>2. ASSUME PingFits PROVE PingOf(written, d)
      <4>1. m = 0 /\ e = N /\ Op = "PING"
        BY <1>0, <1>5, <3>2
      <4> QED BY <1>0, <4>1 DEF PingOf
    <3>3. ASSUME PingFits, NEW i \in 1 .. Len(pongs) + 1 PROVE PingOf(written, pongs'[i])
      <4>1. i \in 1 .. Len(pongs) \/ i = Len(pongs) + 1
        BY <3>1
      <4> QED BY <3>1, <3>2, <3>3, <4>1 DEF PongsOK
    <3>4. PingFits' = PingFits
      BY DEF PingFits
    <3>5. PongsOK'
      BY <3>1, <3>3, <3>4 DEF PongsOK
    <3> QED BY <1>2, <2>1, <3>1, <3>5
  <2> QED BY <1>5, <2>2, <2>3
<1>6. CASE /\ opcode = "PONG"
           /\ IF role = "client" THEN Callback("RECEIVE_PONG", d, N - e) ELSE UNCHANGED received
           /\ UNCHANGED <<pongs, closes, conn>>
  <2>1. received' \in Seq(Pieces) /\ PiecesOK' /\ GotTo(e)'
    <3>1. CASE role = "client"
      <4>1. Op \in HeardBy(role)
        BY <1>0, <1>6, <3>1 DEF HeardBy
      <4> QED BY <1>0, <1>6, <3>1, <4>1, CallbackStep
    <3>2. CASE role # "client"
      <4>1. Op \notin HeardBy(role) /\ UNCHANGED received
        BY <1>0, <1>6, <3>2 DEF HeardBy, DataOps
      <4> QED BY <1>2, <4>1
    <3> QED BY <3>1, <3>2
  <2> QED BY <1>3, <1>6, <2>1
<1>7. CASE /\ opcode = "CLOSE"
           /\ closes' = Append(closes, d) /\ Bail
           /\ UNCHANGED <<received, pongs>>
  <2>1. Op \notin HeardBy(role)
    BY <1>0, <1>7 DEF HeardBy, DataOps
  <2> QED BY <1>2, <1>3, <1>7, <2>1 DEF Bail
<1> QED BY <1>4, <1>5, <1>6, <1>7 DEF Spill

(* The last byte of a frame has been read. *)
LEMMA FrameOver ==
  ASSUME RxTypes, Cur > 0, written' = written, role' = role, GotTo(N)', wire' = <<>>,
         lws_rx_parse_state' = "NEW", rx_user_buffer' = <<>>, frame_is_binary' = BinaryAt(written, Cur)
  PROVE  Idle'
<1>0. written \in Seq(Frames) /\ Cur = Len(written) /\ Cur \in Nat \ {0} /\ N = written[Cur].n
  BY DEF RxTypes, Cur, N
<1>1. Cur - 1 \in Nat /\ Cur - 1 < Len(written) /\ (Cur - 1) + 1 = Cur
  BY <1>0
<1>2. SentOf(written, role, Cur) = SentOf(written, role, Cur - 1) \o HeardOf(written, role, Cur, N)
  BY <1>0, <1>1, SentNext, ZenonT(60)
<1>3. N \in Nat
  BY <1>0, FrameFields
<1>4. GotOf(received') = SentOf(written, role, Cur - 1) \o HeardOf(written, role, Cur, N)
  BY <1>3, FrameStays DEF SameFrame
<1>5. Cur' = Cur
  BY DEF Cur
<1> QED BY <1>2, <1>4, <1>5 DEF Idle

(* The byte after i bytes of payload comes next; the buffer has those after m. *)
LEMMA PayloadGoesOn ==
  ASSUME RxTypes, Cur > 0, written' = written, role' = role, NEW key \in Keys,
         NEW i \in Nat, i < N, NEW m \in Nat, m <= i, NEW q, q = PayloadAt + 1 + i,
         lws_rx_parse_state' = "PAYLOAD", opcode' = Op, frame_is_binary' = BinaryAt(written, Cur),
         this_frame_masked' = (role = "server"), rx_packet_length' = N - i,
         rx_user_buffer' = Run(Cur, m, i), GotTo(m)',
         Op \in ControlOps => N < Small /\ (PingFits => m = 0),
         role = "server" => KeyRead(key, 4)' /\ (~all_zero_nonce' => frame_mask_index' = i % 4)
  PROVE  AtPayload(key, q)' /\ q \in 1 .. PayloadAt + N
<1>1. FrameFacts(key)
  BY FrameHasFacts
<1>2. /\ Cur' = Cur /\ Op' = Op /\ N' = N /\ PayloadAt' = PayloadAt /\ N \in Nat /\ PayloadAt \in Nat
  BY <1>1, FrameStays DEF SameFrame, FrameFacts
<1>3. q \in 1 .. PayloadAt + N
  BY <1>2
<1>4. Opened'
  BY <1>2 DEF Opened
<1>5. InPayload(key, i, m)'
  BY <1>2, <1>4 DEF InPayload, PingFits
<1>6. i \in 0 .. N' /\ m \in 0 .. N'
  BY <1>2
<1> QED BY <1>2, <1>3, <1>5, <1>6 DEF AtPayload

(* The first byte of the payload comes next. *)
LEMMA PayloadStarts ==
  ASSUME RxTypes, Cur > 0, written' = written, role' = role, N > 0, NEW key \in Keys,
         lws_rx_parse_state' = "PAYLOAD", opcode' = Op, frame_is_binary' = BinaryAt(written, Cur),
         this_frame_masked' = (role = "server"), rx_packet_length' = N,
         rx_user_buffer' = <<>>, GotTo(0)',
         Op \in ControlOps => N < Small,
         role = "server" => KeyRead(key, 4)' /\ frame_mask_index' = 0
  PROVE  AtPayload(key, PayloadAt + 1)'
<1>1. FrameFacts(key)
  BY FrameHasFacts
<1>2. N \in Nat /\ PayloadAt \in Nat /\ Cur \in Nat /\ PayloadAt' = PayloadAt
  BY <1>1, FrameStays DEF SameFrame, FrameFacts
<1>3. PICK q \in Nat : q = PayloadAt + 1
  BY <1>2
<1>4. q = PayloadAt + 1 + 0 /\ N - 0 = N /\ 0 \in Nat /\ 0 < N /\ 0 <= 0 /\ 0 % 4 = 0
  BY <1>2, <1>3
<1>5. rx_packet_length' = N - 0 /\ rx_user_buffer' = Run(Cur, 0, 0)
  BY <1>2, <1>4, RunEmpty
<1>6. role = "server" => KeyRead(key, 4)' /\ (~all_zero_nonce' => frame_mask_index' = 0 % 4)
  BY <1>4
<1>7. Op \in ControlOps => N < Small /\ (PingFits => 0 = 0)
  OBVIOUS
<1>8. AtPayload(key, q)'
  BY <1>4, <1>5, <1>6, <1>7, PayloadGoesOn
<1> QED BY <1>2, <1>3, <1>8
---------------------------------------------------------------------------
(* Where a step of the reader may lead *)

LEMMA NextBusy ==
  ASSUME RxTypes', PiecesOK', PongsOK', conn' = "open", Cur > 0, written' = written, role' = role,
         NEW key \in Keys, NEW q \in 1 .. PayloadAt + N, Remains(wire', TheFrame(key), q),
         AtNew(q)' \/ AtHdrLen(q)' \/ AtLen(q)' \/ AtKey(key, q)' \/ AtPayload(key, q)'
  PROVE  RxOrdered'
<1>1. Cur' = Cur /\ N' = N /\ PayloadAt' = PayloadAt /\ TheFrame(key)' = TheFrame(key)
  BY FrameStays DEF SameFrame
<1>2. Remains(wire, TheFrame(key), q)'
  BY <1>1 DEF Remains
<1>3. Busy'
  BY <1>1, <1>2 DEF Busy
<1> QED BY <1>3 DEF RxOrdered

LEMMA NextIdle ==
  ASSUME RxTypes', PiecesOK', PongsOK', conn' = "open", Idle'
  PROVE  RxOrdered'
BY DEF RxOrdered

LEMMA NextOver ==
  ASSUME RxTypes', PiecesOK', PongsOK', conn' = "closed", Cur > 0, written' = written, role' = role,
         NEW m \in 0 .. N, GotTo(m)'
  PROVE  RxOrdered'
<1>1. Cur' = Cur /\ N' = N
  BY FrameStays DEF SameFrame
<1>2. Over'
  BY <1>1 DEF Over
<1> QED BY <1>2 DEF RxOrdered

(* A step that gives nothing to anyone. *)
LEMMA NothingGiven ==
  ASSUME RxTypes, PiecesOK, PongsOK, written' = written, role' = role, received' = received, pongs' = pongs
  PROVE  /\ received' \in Seq(Pieces) /\ pongs' \in Seq(Seq(Bytes)) /\ PiecesOK' /\ PongsOK'
         /\ \A m \in Nat : GotTo(m) => GotTo(m)'
<1>1. PiecesOK' /\ PongsOK'
  BY DEF PiecesOK, PongsOK, PingFits
<1>2. ASSUME NEW m \in Nat, GotTo(m) PROVE GotTo(m)'
  BY <1>2, FrameStays DEF SameFrame, GotTo
<1> QED BY <1>1, <1>2 DEF RxTypes

(* The byte read from the front of the frame. *)
LEMMA ByteIs == \A v : Byte(v).v = v /\ Byte(v).x = 0
BY DEF Byte

LEMMA RxNewStep ==
  ASSUME RxOrdered, RxNew
  PROVE  RxOrdered'
<1>0. /\ RxTypes /\ PiecesOK /\ PongsOK /\ conn = "open" /\ lws_rx_parse_state = "NEW" /\ Read
      /\ written' = written /\ role' = role /\ received' = received /\ pongs' = pongs /\ conn' = conn
      /\ rx_user_buffer' = rx_user_buffer /\ frame_masking_nonce' = frame_masking_nonce
      /\ lws_rx_parse_state' = "HDR_LEN" /\ opcode' = Head(wire).v
      /\ frame_is_binary' = BinaryAfter(Head(wire).v)
      /\ all_zero_nonce' = IF role = "server" THEN TRUE ELSE all_zero_nonce
  BY DEF RxOrdered, RxNew, outVars, Read
<1>1. Cur > 0 /\ \E k \in Keys : FrameFacts(k) /\ \E p \in Int : ReadAt(k, p)
  BY <1>0, ReadFrom
<1>2. PICK key \in Keys : FrameFacts(key) /\ \E p \in Int : ReadAt(key, p)
  BY <1>1
<1>3. PICK p \in Int : ReadAt(key, p)
  BY <1>2
<1>4. /\ AtNew(p) /\ p \in 1 .. PayloadAt + N /\ Head(wire) = TheFrame(key)[p]
      /\ wire' \in Seq(Bytes) /\ Remains(wire', TheFrame(key), p + 1)
  BY <1>0, <1>3 DEF ReadAt, AtHdrLen, AtLen, AtKey, AtPayload, InPayload
<1>5. p = 1 /\ frame_is_binary = BinaryAt(written, Cur - 1) /\ rx_user_buffer = <<>> /\ GotTo(0)
  BY <1>4 DEF AtNew, Nothing
<1>6. /\ Head(wire).v = Op /\ Op = written[Cur].op /\ Cur \in Nat \ {0} /\ N \in Nat
      /\ HeaderLen \in {2, 4, 10} /\ PayloadAt = HeaderLen + (IF role = "server" THEN 4 ELSE 0)
  BY <1>2, <1>4, <1>5, ByteIs, ZenonT(60) DEF FrameFacts, Op
<1>7. frame_is_binary' = BinaryAt(written, Cur)
  BY <1>0, <1>5, <1>6, BinaryNext DEF BinaryAfter
<1>8. /\ received' \in Seq(Pieces) /\ pongs' \in Seq(Seq(Bytes)) /\ PiecesOK' /\ PongsOK' /\ GotTo(0)'
  BY <1>0, <1>5, NothingGiven
<1>9. RxTypes'
  BY <1>0, <1>4, <1>7, <1>8, BinaryIsBoolean DEF RxTypes
<1>10. Cur' = Cur /\ Op' = Op
  BY <1>0, FrameStays DEF SameFrame
<1>11. AtHdrLen(2)'
  BY <1>0, <1>5, <1>6, <1>7, <1>8, <1>10 DEF AtHdrLen, Opened, Nothing
<1>12. 2 \in 1 .. PayloadAt + N /\ p + 1 = 2
  BY <1>5, <1>6
<1> QED BY <1>0, <1>1, <1>4, <1>8, <1>9, <1>11, <1>12, NextBusy

(* A reader that has the length, and to which no key is coming, is a client. *)
LEMMA StartPayloadStep ==
  ASSUME RxTypes, PiecesOK, PongsOK, conn = "open", Cur > 0, Opened, Nothing, role = "client",
         written' = written, role' = role, opcode' = opcode, frame_is_binary' = frame_is_binary,
         rx_user_buffer' = rx_user_buffer, all_zero_nonce' = all_zero_nonce,
         frame_masking_nonce' = frame_masking_nonce, this_frame_masked' = FALSE,
         Op \in ControlOps => N < Small, rx_packet_length' = N,
         NEW key \in Keys, FrameFacts(key), wire' \in Seq(Bytes),
         Remains(wire', TheFrame(key), PayloadAt + 1), N = 0 => wire' = <<>>,
         StartPayload(N)
  PROVE  RxOrdered'
<1>0. /\ opcode = Op /\ frame_is_binary = BinaryAt(written, Cur) /\ rx_user_buffer = <<>> /\ GotTo(0)
      /\ Cur \in Nat /\ N \in Nat /\ PayloadAt \in {2, 4, 10}
  BY DEF Opened, Nothing, FrameFacts
<1>1. CASE N = 0
  <2>1. lws_rx_parse_state' = "NEW" /\ Spill(rx_user_buffer, 0)
    BY <1>1 DEF StartPayload
  <2>2. Spill(Run(Cur, 0, 0), N - 0)
    <3>1. Run(Cur, 0, 0) = rx_user_buffer
      BY <1>0, RunEmpty
    <3>2. N - 0 = 0
      BY <1>1
    <3> QED BY <2>1, <3>1, <3>2
  <2>3. 0 \in Nat /\ 0 <= 0 /\ 0 <= N /\ (PingFits /\ Op = "PING" => 0 = 0 /\ 0 = N)
    BY <1>1
  <2>4. /\ received' \in Seq(Pieces) /\ PiecesOK' /\ GotTo(0)'
        /\ pongs' \in Seq(Seq(Bytes)) /\ PongsOK' /\ conn' \in {"open", "closed"}
    BY <1>0, <2>2, <2>3, SpillStep
  <2>5. RxTypes'
    BY <2>4 DEF RxTypes
  <2>6. CASE conn' = "open"
    <3>1. N' = 0
      BY <1>1, FrameStays DEF SameFrame
    <3>2. GotTo(N)'
      BY <2>4, <3>1
    <3>3. wire' = <<>> /\ rx_user_buffer' = <<>> /\ frame_is_binary' = BinaryAt(written, Cur)
      BY <1>0, <1>1
    <3>4. Idle'
      BY <2>1, <3>2, <3>3, FrameOver
    <3> QED BY <2>4, <2>5, <2>6, <3>4, NextIdle
  <2>7. CASE conn' = "closed"
    <3>1. 0 \in 0 .. N
      BY <1>1
    <3> QED BY <2>4, <2>5, <2>7, <3>1, NextOver
  <2> QED BY <2>4, <2>6, <2>7
<1>2. CASE N # 0
  <2>1. lws_rx_parse_state' = "PAYLOAD" /\ UNCHANGED outVars
    BY <1>2 DEF StartPayload
  <2>2. received' = received /\ pongs' = pongs /\ conn' = conn
    BY <2>1 DEF outVars
  <2>3. received' \in Seq(Pieces) /\ pongs' \in Seq(Seq(Bytes)) /\ PiecesOK' /\ PongsOK' /\ GotTo(0)'
    BY <1>0, <2>2, NothingGiven
  <2>4. RxTypes'
    BY <2>2, <2>3 DEF RxTypes
  <2>5. N > 0 /\ FALSE = (role = "server") /\ PayloadAt + 1 \in 1 .. PayloadAt + N
    BY <1>0, <1>2
  <2>6. this_frame_masked' = (role = "server") /\ (role = "server" => KeyRead(key, 4)' /\ frame_mask_index' = 0)
    BY <2>5
  <2>7. AtPayload(key, PayloadAt + 1)'
    <3>1. opcode' = Op /\ frame_is_binary' = BinaryAt(written, Cur) /\ rx_user_buffer' = <<>>
      BY <1>0
    <3> QED BY <2>1, <2>3, <2>5, <2>6, <3>1, PayloadStarts
  <2>8. PayloadAt' = PayloadAt
    BY FrameStays DEF SameFrame
  <2>9. PICK q \in 1 .. PayloadAt + N : q = PayloadAt + 1
    BY <2>5
  <2>10. AtPayload(key, q)' /\ Remains(wire', TheFrame(key), q)
    BY <2>7, <2>8, <2>9
  <2> QED BY <2>2, <2>3, <2>4, <2>10, NextBusy
<1> QED BY <1>1, <1>2

LEMMA RxHdrLenStep ==
  ASSUME RxOrdered, RxHdrLen
  PROVE  RxOrdered'
<1> DEFINE c == Head(wire)
<1>0. /\ RxTypes /\ PiecesOK /\ PongsOK /\ conn = "open" /\ lws_rx_parse_state = "HDR_LEN" /\ Read
      /\ written' = written /\ role' = role /\ opcode' = opcode /\ frame_is_binary' = frame_is_binary
      /\ rx_user_buffer' = rx_user_buffer /\ frame_masking_nonce' = frame_masking_nonce
      /\ all_zero_nonce' = all_zero_nonce /\ this_frame_masked' = c.v.masked
  BY DEF RxOrdered, RxHdrLen, keyVars, Read
<1>1. Cur > 0 /\ \E k \in Keys : FrameFacts(k) /\ \E p \in Int : ReadAt(k, p)
  BY <1>0, ReadFrom
<1>2. PICK key \in Keys : FrameFacts(key) /\ \E p \in Int : ReadAt(key, p)
  BY <1>1
<1>3. PICK p \in Int : ReadAt(key, p)
  BY <1>2
<1>4. /\ AtHdrLen(p) /\ p \in 1 .. PayloadAt + N /\ c = TheFrame(key)[p]
      /\ wire' \in Seq(Bytes) /\ Remains(wire', TheFrame(key), p + 1) /\ (p = PayloadAt + N => wire' = <<>>)
  BY <1>0, <1>3 DEF ReadAt, AtNew, AtLen, AtKey, AtPayload, InPayload
<1>5. p = 2 /\ Opened /\ Nothing /\ (role = "server" => all_zero_nonce)
  BY <1>4 DEF AtHdrLen
<1>6. /\ Cur \in Nat \ {0} /\ N \in Nat /\ Op \in DataOps \cup ControlOps
      /\ HeaderLen \in {2, 4, 10} /\ PayloadAt = HeaderLen + (IF role = "server" THEN 4 ELSE 0)
      /\ N < Small => HeaderLen = 2 /\ c = Byte([masked |-> role = "server", n |-> N])
      /\ N >= Small => /\ HeaderLen \in {4, 10}
                       /\ c = Byte([masked |-> role = "server", n |-> IF HeaderLen = 4 THEN Small ELSE Small + 1])
  BY <1>2, <1>4, <1>5 DEF FrameFacts
<1>7. /\ c.v.masked = (role = "server")
      /\ N < Small => c.v.n = N
      /\ N >= Small => c.v.n = IF HeaderLen = 4 THEN Small ELSE Small + 1
  <2>1. N < Small \/ N >= Small
    BY <1>6, RxAssumption
  <2>2. CASE N < Small
    <3>1. c.v = [masked |-> role = "server", n |-> N]
      BY <1>6, <2>2, ByteIs
    <3> QED BY <1>6, <2>2, <3>1, RxAssumption
  <2>3. CASE N >= Small
    <3>1. c.v = [masked |-> role = "server", n |-> IF HeaderLen = 4 THEN Small ELSE Small + 1]
      BY <1>6, <2>3, ByteIs
    <3> QED BY <1>6, <2>3, <3>1, RxAssumption
  <2> QED BY <2>1, <2>2, <2>3
<1> HIDE DEF c
<1>8. (c.v.n >= Small <=> N >= Small) /\ (c.v.n < Small <=> N < Small) /\ c.v.n \in Nat /\ Small \in Nat
  <2>1. Small \in Nat
    BY RxAssumption
  <2> QED BY <1>6, <1>7, <2>1
<1>9. opcode = Op /\ frame_is_binary = BinaryAt(written, Cur) /\ rx_user_buffer = <<>> /\ GotTo(0)
  BY <1>5 DEF Opened, Nothing
<1>10. Cur' = Cur /\ Op' = Op /\ N' = N /\ HeaderLen' = HeaderLen /\ PayloadAt' = PayloadAt
  BY <1>0, FrameStays DEF SameFrame
<1>11. \/ /\ c.v.n >= Small /\ opcode \in ControlOps /\ Bail /\ received' = received /\ pongs' = pongs
       \/ /\ c.v.n >= Small /\ opcode \notin ControlOps
          /\ lws_rx_parse_state' = "LEN" /\ left' = (IF c.v.n = Small THEN 2 ELSE 8)
          /\ rx_packet_length' = 0 /\ UNCHANGED outVars
       \/ /\ c.v.n < Small /\ rx_packet_length' = ShortLength(c.v) /\ c.v.masked
          /\ lws_rx_parse_state' = "KEY" /\ left' = 4 /\ UNCHANGED outVars
       \/ /\ c.v.n < Small /\ rx_packet_length' = ShortLength(c.v) /\ ~c.v.masked
          /\ StartPayload(c.v.n)
  BY DEF RxHdrLen, c
<1>12. ASSUME received' = received, pongs' = pongs, conn' \in {"open", "closed"}
       PROVE  PiecesOK' /\ PongsOK' /\ GotTo(0)' /\ RxTypes'
  <2>1. received' \in Seq(Pieces) /\ pongs' \in Seq(Seq(Bytes)) /\ PiecesOK' /\ PongsOK' /\ GotTo(0)'
    BY <1>0, <1>9, <1>12, NothingGiven
  <2> QED BY <1>0, <1>4, <1>12, <2>1 DEF RxTypes
<1>13. UNCHANGED outVars => received' = received /\ pongs' = pongs /\ conn' = "open"
  BY <1>0 DEF outVars
<1>14. CASE c.v.n >= Small /\ opcode \in ControlOps /\ Bail /\ received' = received /\ pongs' = pongs
  <2>1. conn' = "closed" /\ 0 \in 0 .. N
    BY <1>6, <1>14 DEF Bail
  <2>2. PiecesOK' /\ PongsOK' /\ GotTo(0)' /\ RxTypes'
    BY <1>12, <1>14, <2>1
  <2> QED BY <1>0, <1>1, <2>1, <2>2, NextOver
<1>15. CASE /\ c.v.n >= Small /\ opcode \notin ControlOps
            /\ lws_rx_parse_state' = "LEN" /\ left' = (IF c.v.n = Small THEN 2 ELSE 8)
            /\ rx_packet_length' = 0 /\ UNCHANGED outVars
  <2>1. received' = received /\ pongs' = pongs /\ conn' = "open"
    BY <1>13, <1>15
  <2>2. PiecesOK' /\ PongsOK' /\ GotTo(0)' /\ RxTypes'
    BY <1>12, <2>1
  <2>3. Op \in DataOps
    BY <1>6, <1>9, <1>15
  <2>4. HeaderLen \in {4, 10} /\ (c.v.n = Small <=> HeaderLen = 4)
    BY <1>6, <1>7, <1>8, <1>15
  <2>5. left' = HeaderLen + 1 - 3 /\ 3 \in 3 .. HeaderLen /\ 3 \in 1 .. PayloadAt + N /\ p + 1 = 3
    BY <1>5, <1>6, <1>15, <2>4
  <2>6. AtLen(3)'
    BY <1>0, <1>5, <1>7, <1>9, <1>10, <1>15, <2>2, <2>3, <2>5 DEF AtLen, Opened, Nothing
  <2> QED BY <1>0, <1>1, <1>4, <2>1, <2>2, <2>5, <2>6, NextBusy
<1>16. CASE /\ c.v.n < Small /\ rx_packet_length' = ShortLength(c.v) /\ c.v.masked
            /\ lws_rx_parse_state' = "KEY" /\ left' = 4 /\ UNCHANGED outVars
  <2>1. received' = received /\ pongs' = pongs /\ conn' = "open"
    BY <1>13, <1>16
  <2>2. PiecesOK' /\ PongsOK' /\ GotTo(0)' /\ RxTypes'
    BY <1>12, <2>1
  <2>3. role = "server" /\ N < Small /\ c.v.n = N /\ HeaderLen = 2
    BY <1>6, <1>7, <1>8, <1>16
  <2>4. rx_packet_length' = N
    BY <1>16, <2>3 DEF ShortLength
  <2>6. KeyRead(key, 4 - 4)'
    <3>1. \A i : i \notin 0 .. (4 - 4) - 1
      OBVIOUS
    <3>2. all_zero_nonce'
      BY <1>0, <1>5, <2>3
    <3> QED BY <1>0, <3>1, <3>2 DEF KeyRead, RxTypes
  <2>a. PICK q \in Int : q = 3
    OBVIOUS
  <2>b. /\ q \in HeaderLen + 1 .. HeaderLen + 4 /\ left' = HeaderLen + 5 - q /\ p + 1 = q
        /\ q \in 1 .. PayloadAt + N
    BY <1>5, <1>6, <1>16, <2>3, <2>a
  <2>c. KeyRead(key, 4 - left)'
    BY <1>16, <2>6
  <2>d. Opened' /\ Nothing' /\ this_frame_masked' /\ role' = "server"
    BY <1>0, <1>7, <1>9, <1>10, <2>2, <2>3 DEF Opened, Nothing
  <2>7. AtKey(key, q)'
    BY <1>10, <1>16, <2>3, <2>4, <2>b, <2>c, <2>d DEF AtKey
  <2> QED BY <1>0, <1>1, <1>4, <2>1, <2>2, <2>b, <2>7, NextBusy
<1>17. CASE /\ c.v.n < Small /\ rx_packet_length' = ShortLength(c.v) /\ ~c.v.masked
            /\ StartPayload(c.v.n)
  <2>0. role = "client" /\ role # "server"
    BY <1>0, <1>7, <1>17 DEF RxTypes
  <2>1. N < Small /\ c.v.n = N /\ HeaderLen = 2 /\ PayloadAt = 2
    BY <1>6, <1>7, <1>8, <1>17, <2>0
  <2>2. rx_packet_length' = N /\ this_frame_masked' = FALSE /\ StartPayload(N)
    BY <1>0, <1>7, <1>17, <2>0, <2>1 DEF ShortLength
  <2>3. p + 1 = PayloadAt + 1 /\ (N = 0 => p = PayloadAt + N)
    BY <1>5, <1>6, <2>1
  <2>4. Remains(wire', TheFrame(key), PayloadAt + 1) /\ (N = 0 => wire' = <<>>)
    BY <1>4, <2>3
  <2> QED BY <1>0, <1>1, <1>2, <1>4, <1>5, <1>6, <2>0, <2>1, <2>2, <2>4, StartPayloadStep
<1> QED BY <1>11, <1>14, <1>15, <1>16, <1>17

LEMMA RxLenStep ==
  ASSUME RxOrdered, RxLen
  PROVE  RxOrdered'
<1> DEFINE c == Head(wire)
           sh == Shifts(N)
<1>0. /\ RxTypes /\ PiecesOK /\ PongsOK /\ conn = "open" /\ lws_rx_parse_state = "LEN" /\ Read
      /\ written' = written /\ role' = role /\ opcode' = opcode /\ frame_is_binary' = frame_is_binary
      /\ rx_user_buffer' = rx_user_buffer /\ frame_masking_nonce' = frame_masking_nonce
      /\ all_zero_nonce' = all_zero_nonce /\ this_frame_masked' = this_frame_masked
  BY DEF RxOrdered, RxLen, keyVars, frameVars, Read
<1>1. Cur > 0 /\ \E k \in Keys : FrameFacts(k) /\ \E p \in Int : ReadAt(k, p)
  BY <1>0, ReadFrom
<1>2. PICK key \in Keys : FrameFacts(key) /\ \E p \in Int : ReadAt(key, p)
  BY <1>1
<1>3. PICK p \in Int : ReadAt(key, p)
  BY <1>2
<1>4. /\ AtLen(p) /\ p \in 1 .. PayloadAt + N /\ c = TheFrame(key)[p]
      /\ wire' \in Seq(Bytes) /\ Remains(wire', TheFrame(key), p + 1) /\ (p = PayloadAt + N => wire' = <<>>)
  BY <1>0, <1>3 DEF ReadAt, AtNew, AtHdrLen, AtKey, AtPayload, InPayload
<1>5. /\ p \in 3 .. HeaderLen /\ Opened /\ Nothing /\ (role = "server" => all_zero_nonce)
      /\ this_frame_masked = (role = "server") /\ Op \in DataOps
      /\ left = HeaderLen + 1 - p
      /\ rx_packet_length = IF p = 3 THEN 0 ELSE sh[left + 1]
  BY <1>4 DEF AtLen
<1>6. /\ N \in Nat /\ HeaderLen \in {2, 4, 10} /\ PayloadAt = HeaderLen + (IF role = "server" THEN 4 ELSE 0)
      /\ N < Small => HeaderLen = 2
      /\ N >= Small => /\ HeaderLen \in {4, 10}
                       /\ \A i \in 3 .. HeaderLen : TheFrame(key)[i] = Byte(sh[HeaderLen + 1 - i] % Base)
                       /\ sh[HeaderLen - 2] % Base = sh[HeaderLen - 2]
  BY <1>2 DEF FrameFacts
<1>7. N >= Small /\ HeaderLen \in {4, 10}
  <2>1. Small \in Nat
    BY RxAssumption
  <2>2. HeaderLen # 2
    BY <1>5, <1>6
  <2>3. ~(N < Small)
    BY <1>6, <2>2
  <2> QED BY <1>6, <2>1, <2>3
<1>8. c.v = sh[left] % Base
  BY <1>4, <1>5, <1>6, <1>7, ByteIs
<1>a. sh[1] = N /\ sh[left] \in Nat
  <2>1. left \in 1 .. 8
    BY <1>5, <1>7
  <2> QED BY <1>6, <2>1, ShiftsAt
<1> HIDE DEF c, sh
<1>c. ~TopBitSet(c.v)
  <2> SUFFICES ASSUME left = 8 PROVE 2 * c.v < Base
    <3>1. Base \in Int /\ c.v \in Int
      <4>1. sh[left] \in Int /\ Base \in Nat \ {0}
        BY <1>a, RxAssumption
      <4>2. sh[left] % Base \in Int
        BY <4>1
      <4> QED BY <1>8, <4>1, <4>2
    <3> QED BY <3>1 DEF TopBitSet
  <2>1. HeaderLen = 10
    BY <1>5, <1>7
  <2>2. c.v = sh[8]
    <3>1. HeaderLen - 2 = 8
      BY <2>1
    <3> QED BY <1>6, <1>7, <1>8, <3>1
  <2>3. N \in Nat /\ 2 * N < SizeMod
    <3>1. written[Cur] \in Frames
      BY <1>0, <1>2 DEF FrameFacts, RxTypes
    <3>2. N \in Lens
      BY <3>1 DEF Frames, N
    <3> QED BY <3>2, RxAssumption
  <2> QED BY <2>2, <2>3, TopBitClear DEF sh
<1>d. rx_packet_length' = rx_packet_length * Base + c.v
  BY <1>c DEF RxLen, c
<1>9. rx_packet_length' = sh[left]
  <2>0. Base \in Nat
    BY RxAssumption
  <2>1. CASE p = 3
    <3>1. left = HeaderLen - 2 /\ rx_packet_length = 0
      BY <1>5, <1>6, <2>1
    <3>2. c.v = sh[left]
      BY <1>6, <1>7, <1>8, <3>1
    <3>3. 0 * Base + sh[left] = sh[left]
      BY <1>a, <2>0
    <3> QED BY <1>d, <3>1, <3>2, <3>3
  <2>2. CASE p # 3
    <3>1. left \in 1 .. 7 /\ rx_packet_length = sh[left + 1]
      BY <1>5, <1>7, <2>2
    <3>2. sh[left + 1] * Base + (sh[left] % Base) = sh[left]
      BY <1>6, <3>1, ShiftsBack DEF sh
    <3> QED BY <1>d, <1>8, <3>1, <3>2
  <2> QED BY <2>1, <2>2
<1>10. /\ Cur' = Cur /\ Op' = Op /\ N' = N /\ HeaderLen' = HeaderLen /\ PayloadAt' = PayloadAt
       /\ Shifts(N)' = sh
  BY <1>0, FrameStays DEF SameFrame, sh, Shifts
<1>11. UNCHANGED outVars => /\ conn' = "open" /\ PiecesOK' /\ PongsOK' /\ RxTypes' /\ Opened' /\ Nothing'
  <2> HAVE UNCHANGED outVars
  <2>1. received' = received /\ pongs' = pongs /\ conn' = "open"
    BY <1>0 DEF outVars
  <2>2. rx_user_buffer = <<>> /\ GotTo(0) /\ opcode = Op /\ frame_is_binary = BinaryAt(written, Cur)
    BY <1>5 DEF Opened, Nothing
  <2>3. received' \in Seq(Pieces) /\ pongs' \in Seq(Seq(Bytes)) /\ PiecesOK' /\ PongsOK' /\ GotTo(0)'
    BY <1>0, <2>1, <2>2, NothingGiven
  <2>4. RxTypes'
    BY <1>0, <1>4, <2>1, <2>3 DEF RxTypes
  <2> QED BY <1>0, <1>10, <2>1, <2>2, <2>3, <2>4 DEF Opened, Nothing
<1>12. \/ left > 1 /\ left' = left - 1 /\ UNCHANGED lws_rx_parse_state /\ UNCHANGED outVars
       \/ ~(left > 1) /\ this_frame_masked /\ lws_rx_parse_state' = "KEY" /\ left' = 4 /\ UNCHANGED outVars
       \/ ~(left > 1) /\ ~this_frame_masked /\ left' = 0 /\ StartPayload(rx_packet_length * Base + c.v)
  BY <1>c DEF RxLen, c
<1>13. CASE left > 1 /\ left' = left - 1 /\ UNCHANGED lws_rx_parse_state /\ UNCHANGED outVars
  <2>1. PICK q \in Int : q = p + 1
    OBVIOUS
  <2>2. /\ q \in 3 .. HeaderLen /\ q # 3 /\ left' = HeaderLen + 1 - q /\ left' + 1 = left /\ q \in 1 .. PayloadAt + N
    BY <1>5, <1>6, <1>7, <1>13, <2>1
  <2>3. rx_packet_length' = Shifts(N)'[left' + 1]
    BY <1>9, <1>10, <2>2
  <2>4. AtLen(q)'
    BY <1>0, <1>5, <1>10, <1>11, <1>13, <2>2, <2>3 DEF AtLen
  <2> QED BY <1>0, <1>1, <1>4, <1>11, <1>13, <2>1, <2>2, <2>4, NextBusy
<1>14. ASSUME ~(left > 1) PROVE p = HeaderLen /\ rx_packet_length' = N /\ rx_packet_length * Base + c.v = N
  <2>1. left = 1 /\ p = HeaderLen
    BY <1>5, <1>7, <1>14
  <2> QED BY <1>d, <1>9, <1>a, <2>1
<1>15. CASE ~(left > 1) /\ this_frame_masked /\ lws_rx_parse_state' = "KEY" /\ left' = 4 /\ UNCHANGED outVars
  <2>1. role = "server" /\ p = HeaderLen /\ rx_packet_length' = N
    BY <1>5, <1>14, <1>15
  <2>2. PICK q \in Int : q = p + 1
    OBVIOUS
  <2>3. /\ q \in HeaderLen + 1 .. HeaderLen + 4 /\ left' = HeaderLen + 5 - q /\ q \in 1 .. PayloadAt + N
    BY <1>5, <1>6, <1>7, <1>15, <2>1, <2>2
  <2>4. KeyRead(key, 4 - left)'
    <3>1. \A i : i \notin 0 .. (4 - 4) - 1
      OBVIOUS
    <3>2. all_zero_nonce'
      BY <1>0, <1>5, <2>1
    <3>3. KeyRead(key, 4 - 4)'
      BY <1>0, <3>1, <3>2 DEF KeyRead, RxTypes
    <3> QED BY <1>15, <3>3
  <2>5. Op \in ControlOps => N < Small
    BY <1>5 DEF DataOps, ControlOps
  <2>6. AtKey(key, q)'
    BY <1>0, <1>10, <1>11, <1>15, <2>1, <2>3, <2>4, <2>5 DEF AtKey
  <2> QED BY <1>0, <1>1, <1>4, <1>11, <1>15, <2>2, <2>3, <2>6, NextBusy
<1>16. CASE ~(left > 1) /\ ~this_frame_masked /\ left' = 0 /\ StartPayload(rx_packet_length * Base + c.v)
  <2>1. role = "client" /\ role # "server"
    BY <1>0, <1>5, <1>16 DEF RxTypes
  <2>2. p = HeaderLen /\ rx_packet_length' = N /\ StartPayload(N) /\ PayloadAt = HeaderLen /\ this_frame_masked' = FALSE
    BY <1>0, <1>5, <1>6, <1>14, <1>16, <2>1
  <2>3. p + 1 = PayloadAt + 1 /\ (N = 0 => p = PayloadAt + N)
    BY <1>6, <1>7, <2>2
  <2>4. Remains(wire', TheFrame(key), PayloadAt + 1) /\ (N = 0 => wire' = <<>>)
    BY <1>4, <2>3
  <2>5. Op \in ControlOps => N < Small
    BY <1>5 DEF DataOps, ControlOps
  <2> QED BY <1>0, <1>1, <1>2, <1>4, <1>5, <2>1, <2>2, <2>4, <2>5, StartPayloadStep
<1> QED BY <1>12, <1>13, <1>15, <1>16

LEMMA KeyReadMore ==
  ASSUME NEW key \in Keys, NEW j \in 0 .. 3, RxTypes, KeyRead(key, j),
         frame_masking_nonce' = [frame_masking_nonce EXCEPT ![j] = KeyByte(key, j)],
         all_zero_nonce' = (all_zero_nonce /\ KeyByte(key, j) = 0)
  PROVE  KeyRead(key, j + 1)' /\ frame_masking_nonce' \in [0 .. 3 -> {0, 1}] /\ all_zero_nonce' \in BOOLEAN
<1>0. frame_masking_nonce \in [0 .. 3 -> {0, 1}] /\ KeyByte(key, j) \in {0, 1}
  BY KeyByteIs DEF RxTypes
<1>1. /\ \A i \in 0 .. j - 1 : frame_masking_nonce[i] = KeyByte(key, i)
      /\ all_zero_nonce = \A i \in 0 .. j - 1 : KeyByte(key, i) = 0
  BY DEF KeyRead
<1>2. ASSUME NEW i \in 0 .. (j + 1) - 1 PROVE frame_masking_nonce'[i] = KeyByte(key, i)
  <2>1. i \in 0 .. j - 1 \/ i = j
    OBVIOUS
  <2>2. i \in 0 .. 3 /\ (i \in 0 .. j - 1 => i # j)
    OBVIOUS
  <2> QED BY <1>0, <1>1, <2>1, <2>2
<1>3. (\A i \in 0 .. (j + 1) - 1 : KeyByte(key, i) = 0) <=> (\A i \in 0 .. j - 1 : KeyByte(key, i) = 0) /\ KeyByte(key, j) = 0
  <2>1. \A i : i \in 0 .. (j + 1) - 1 <=> i \in 0 .. j - 1 \/ i = j
    OBVIOUS
  <2> QED BY <2>1, Zenon
<1>4. all_zero_nonce' = \A i \in 0 .. (j + 1) - 1 : KeyByte(key, i) = 0
  BY <1>1, <1>3
<1> QED BY <1>0, <1>2, <1>4 DEF KeyRead

LEMMA RxKeyStep ==
  ASSUME RxOrdered, ~Derailed, RxKey
  PROVE  RxOrdered'
<1> DEFINE c == Head(wire)
<1>0. /\ RxTypes /\ PiecesOK /\ PongsOK /\ conn = "open" /\ lws_rx_parse_state = "KEY" /\ Read
      /\ written' = written /\ role' = role /\ opcode' = opcode /\ frame_is_binary' = frame_is_binary
      /\ rx_user_buffer' = rx_user_buffer /\ this_frame_masked' = this_frame_masked
      /\ rx_packet_length' = rx_packet_length /\ left' = left - 1
      /\ frame_masking_nonce' = [frame_masking_nonce EXCEPT ![4 - left] = c.v]
      /\ all_zero_nonce' = (all_zero_nonce /\ c.v = 0)
  BY DEF RxOrdered, RxKey, frameVars, Read
<1>1. Cur > 0 /\ \E k \in Keys : FrameFacts(k) /\ \E p \in Int : ReadAt(k, p)
  BY <1>0, ReadFrom
<1>2. PICK key \in Keys : FrameFacts(key) /\ \E p \in Int : ReadAt(key, p)
  BY <1>1
<1>3. PICK p \in Int : ReadAt(key, p)
  BY <1>2
<1>4. /\ AtKey(key, p) /\ p \in 1 .. PayloadAt + N /\ c = TheFrame(key)[p]
      /\ wire' \in Seq(Bytes) /\ Remains(wire', TheFrame(key), p + 1)
  BY <1>0, <1>3 DEF ReadAt, AtNew, AtHdrLen, AtLen, AtPayload, InPayload
<1>5. /\ p \in HeaderLen + 1 .. HeaderLen + 4 /\ Opened /\ Nothing /\ role = "server" /\ this_frame_masked
      /\ Op \in ControlOps => N < Small
      /\ left = HeaderLen + 5 - p /\ rx_packet_length = N /\ KeyRead(key, 4 - left)
  BY <1>4 DEF AtKey
<1>6. /\ N \in Nat /\ HeaderLen \in {2, 4, 10} /\ PayloadAt = HeaderLen + 4
      /\ \A i \in 1 .. 4 : TheFrame(key)[HeaderLen + i] = Byte(KeyByte(key, i - 1))
  BY <1>2, <1>5 DEF FrameFacts
<1>7. PICK j \in 0 .. 3 : j = 4 - left
  BY <1>5, <1>6
<1>8. c.v = KeyByte(key, j)
  <2>1. j + 1 \in 1 .. 4 /\ HeaderLen + (j + 1) = p /\ (j + 1) - 1 = j
    BY <1>5, <1>6, <1>7
  <2>2. TheFrame(key)[HeaderLen + (j + 1)] = Byte(KeyByte(key, (j + 1) - 1))
    BY <1>6, <2>1
  <2> QED BY <1>4, <2>1, <2>2, ByteIs
<1> HIDE DEF c
<1>9. KeyRead(key, j + 1)' /\ frame_masking_nonce' \in [0 .. 3 -> {0, 1}] /\ all_zero_nonce' \in BOOLEAN
  BY <1>0, <1>5, <1>7, <1>8, KeyReadMore
<1>10. /\ Cur' = Cur /\ Op' = Op /\ N' = N /\ HeaderLen' = HeaderLen /\ PayloadAt' = PayloadAt
  BY <1>0, FrameStays DEF SameFrame
<1>a. N > 0
  <2>1. Cur \in DOMAIN written /\ N = written[Cur].n
    BY <1>0, <1>1 DEF Cur, N, RxTypes
  <2>2. N # 0
    BY <1>5, <2>1 DEF Derailed
  <2> QED BY <1>6, <2>2
<1>11. UNCHANGED outVars
  BY <1>5, <1>a DEF RxKey
<1>12. conn' = "open" /\ PiecesOK' /\ PongsOK' /\ RxTypes' /\ Opened' /\ Nothing'
  <2>1. received' = received /\ pongs' = pongs /\ conn' = "open"
    BY <1>0, <1>11 DEF outVars
  <2>2. rx_user_buffer = <<>> /\ GotTo(0) /\ opcode = Op /\ frame_is_binary = BinaryAt(written, Cur)
    BY <1>5 DEF Opened, Nothing
  <2>3. received' \in Seq(Pieces) /\ pongs' \in Seq(Seq(Bytes)) /\ PiecesOK' /\ PongsOK' /\ GotTo(0)'
    BY <1>0, <2>1, <2>2, NothingGiven
  <2>4. RxTypes'
    BY <1>0, <1>4, <1>9, <2>1, <2>3 DEF RxTypes
  <2> QED BY <1>0, <1>10, <2>1, <2>2, <2>3, <2>4 DEF Opened, Nothing
<1>13. \/ left > 1 /\ lws_rx_parse_state' = lws_rx_parse_state
       \/ ~(left > 1) /\ lws_rx_parse_state' = "PAYLOAD" /\ frame_mask_index' = 0
  BY <1>5, <1>a DEF RxKey, MaskStart
<1>14. CASE left > 1 /\ lws_rx_parse_state' = lws_rx_parse_state
  <2>1. PICK q \in Int : q = p + 1
    OBVIOUS
  <2>2. q \in HeaderLen + 1 .. HeaderLen + 4 /\ left' = HeaderLen + 5 - q /\ j + 1 = 4 - left' /\ q \in 1 .. PayloadAt + N
    BY <1>0, <1>5, <1>6, <1>7, <1>14, <2>1
  <2>3. KeyRead(key, 4 - left)'
    BY <1>9, <2>2
  <2>4. AtKey(key, q)'
    BY <1>0, <1>5, <1>10, <1>12, <1>14, <2>2, <2>3 DEF AtKey
  <2> QED BY <1>0, <1>1, <1>4, <1>12, <2>1, <2>2, <2>4, NextBusy
<1>15. CASE ~(left > 1) /\ lws_rx_parse_state' = "PAYLOAD" /\ frame_mask_index' = 0
  <2>1. PICK q \in Int : q = p + 1
    OBVIOUS
  <2>2. q = PayloadAt + 1 /\ j + 1 = 4 /\ q \in 1 .. PayloadAt + N
    BY <1>5, <1>6, <1>7, <1>15, <1>a, <2>1
  <2>3. KeyRead(key, 4)' /\ GotTo(0)' /\ rx_user_buffer' = <<>>
    BY <1>9, <1>12, <2>2 DEF Nothing
  <2>4. opcode' = Op /\ frame_is_binary' = BinaryAt(written, Cur) /\ this_frame_masked' = (role = "server")
    BY <1>0, <1>5 DEF Opened
  <2>5. AtPayload(key, PayloadAt + 1)'
    BY <1>0, <1>1, <1>5, <1>15, <1>a, <2>3, <2>4, PayloadStarts
  <2>6. AtPayload(key, q)'
    BY <1>10, <2>2, <2>5
  <2> QED BY <1>0, <1>1, <1>4, <1>12, <2>1, <2>2, <2>6, NextBusy
<1> QED BY <1>13, <1>14, <1>15

LEMMA QuarterMod ==
  ASSUME NEW i \in Nat
  PROVE  i % 4 \in 0 .. 3 /\ (i % 4) % 4 = i % 4 /\ ((i % 4) + 1) % 4 = (i + 1) % 4
OBVIOUS

(* What the reader makes of byte i + 1 of the payload. *)
LEMMA Unmasked ==
  ASSUME NEW key \in Keys, NEW f \in Nat, NEW i \in Nat, NEW c, RxTypes,
         c = IF role = "server" THEN Mask(Byte(<<f, i + 1>>), KeyByte(key, i % 4)) ELSE Byte(<<f, i + 1>>),
         this_frame_masked = (role = "server"),
         role = "server" => KeyRead(key, 4) /\ (~all_zero_nonce => frame_mask_index = i % 4)
  PROVE  /\ (IF Masked THEN Mask(c, frame_masking_nonce[frame_mask_index % 4]) ELSE c) = Byte(<<f, i + 1>>)
         /\ role = "server" => (Masked <=> ~all_zero_nonce)
<1> DEFINE v == <<f, i + 1>>
<1>0. v \in ByteValues
  BY DEF ByteValues
<1>1. i % 4 \in 0 .. 3 /\ (i % 4) % 4 = i % 4
  BY QuarterMod
<1>2. KeyByte(key, i % 4) \in {0, 1}
  BY <1>1, KeyByteIs
<1> HIDE DEF v
<1>3. /\ Mask(Mask(Byte(v), KeyByte(key, i % 4)), KeyByte(key, i % 4)) = Byte(v)
      /\ KeyByte(key, i % 4) = 0 => Mask(Byte(v), KeyByte(key, i % 4)) = Byte(v)
  BY <1>0, <1>2, MaskTwice
<1>4. CASE role = "server"
  <2>1. c = Mask(Byte(v), KeyByte(key, i % 4)) /\ (Masked <=> ~all_zero_nonce)
    BY <1>4 DEF Masked, v
  <2>2. i % 4 \in 0 .. 4 - 1
    BY <1>1
  <2>3. frame_masking_nonce[i % 4] = KeyByte(key, i % 4) /\ (all_zero_nonce => KeyByte(key, i % 4) = 0)
    BY <1>4, <2>2 DEF KeyRead
  <2>4. CASE all_zero_nonce
    BY <1>3, <2>1, <2>3, <2>4 DEF v
  <2>5. CASE ~all_zero_nonce
    <3>1. frame_masking_nonce[frame_mask_index % 4] = KeyByte(key, i % 4)
      BY <1>1, <1>4, <2>3, <2>5
    <3> QED BY <1>3, <2>1, <2>5, <3>1 DEF v
  <2> QED BY <2>1, <2>4, <2>5
<1>5. CASE role # "server"
  <2>1. role = "client" /\ ~this_frame_masked
    BY <1>5 DEF RxTypes
  <2> QED BY <1>5, <2>1 DEF Masked, v
<1> QED BY <1>4, <1>5

LEMMA SizeHolds ==
  ASSUME NEW n \in Nat, n < SizeMod
  PROVE  n % SizeMod = n
<1>1. SizeMod \in Nat
  BY SizeModIs, RxAssumption, MulNat
<1> DEFINE z == SizeMod
<1> HIDE DEF z
<1>2. z \in Nat /\ n < z
  BY <1>1 DEF z
<1>3. n % z = n
  BY <1>2
<1> QED BY <1>3 DEF z

LEMMA RxPayloadStep ==
  ASSUME RxOrdered, RxPayload
  PROVE  RxOrdered'
<1> DEFINE c == Head(wire)
           b == IF Masked THEN Mask(c, frame_masking_nonce[frame_mask_index % 4]) ELSE c
           buffer == Append(rx_user_buffer, b)
           n == (rx_packet_length - 1) % SizeMod
<1>0. /\ RxTypes /\ PiecesOK /\ PongsOK /\ conn = "open" /\ lws_rx_parse_state = "PAYLOAD" /\ Read
      /\ written' = written /\ role' = role /\ opcode' = opcode /\ frame_is_binary' = frame_is_binary
      /\ this_frame_masked' = this_frame_masked
      /\ all_zero_nonce' = all_zero_nonce /\ frame_masking_nonce' = frame_masking_nonce
      /\ rx_packet_length' = n /\ lws_rx_parse_state' = (IF n = 0 THEN "NEW" ELSE "PAYLOAD")
      /\ frame_mask_index' = (IF Masked THEN (frame_mask_index + 1) % 4 ELSE frame_mask_index)
  BY DEF RxOrdered, RxPayload, frameVars, Read
<1>1. Cur > 0 /\ \E k \in Keys : FrameFacts(k) /\ \E p \in Int : ReadAt(k, p)
  BY <1>0, ReadFrom
<1>2. PICK key \in Keys : FrameFacts(key) /\ \E p \in Int : ReadAt(key, p)
  BY <1>1
<1>3. PICK p \in Int : ReadAt(key, p)
  BY <1>2
<1>4. /\ AtPayload(key, p) /\ p \in 1 .. PayloadAt + N /\ c = TheFrame(key)[p]
      /\ wire' \in Seq(Bytes) /\ Remains(wire', TheFrame(key), p + 1) /\ (p = PayloadAt + N => wire' = <<>>)
  BY <1>0, <1>3 DEF ReadAt, AtNew, AtHdrLen, AtLen, AtKey
<1>5. PICK i \in Nat, m \in Nat : p = PayloadAt + 1 + i /\ InPayload(key, i, m)
  <2>1. N \in Nat
    BY <1>2 DEF FrameFacts
  <2>2. PICK i \in 0 .. N, m \in 0 .. N : p = PayloadAt + 1 + i /\ InPayload(key, i, m)
    BY <1>4 DEF AtPayload
  <2> QED BY <2>1, <2>2
<1>6. /\ i < N /\ m <= i /\ Opened /\ this_frame_masked = (role = "server")
      /\ Op \in ControlOps => N < Small /\ (PingFits => m = 0)
      /\ rx_packet_length = N - i /\ rx_user_buffer = Run(Cur, m, i) /\ GotTo(m)
      /\ role = "server" => KeyRead(key, 4) /\ (~all_zero_nonce => frame_mask_index = i % 4)
  BY <1>5 DEF InPayload
<1>7. /\ Cur \in Nat /\ N \in Nat /\ N < SizeMod /\ PayloadAt \in Nat
      /\ \A k \in 1 .. N : TheFrame(key)[PayloadAt + k] =
           IF role = "server" THEN Mask(Byte(<<Cur, k>>), KeyByte(key, (k - 1) % 4)) ELSE Byte(<<Cur, k>>)
  BY <1>2, SMTT(60) DEF FrameFacts
<1>8. c = IF role = "server" THEN Mask(Byte(<<Cur, i + 1>>), KeyByte(key, i % 4)) ELSE Byte(<<Cur, i + 1>>)
  <2>1. i + 1 \in 1 .. N /\ PayloadAt + (i + 1) = p /\ (i + 1) - 1 = i
    BY <1>5, <1>6, <1>7
  <2> QED BY <1>4, <1>7, <2>1
<1>9. b = Byte(<<Cur, i + 1>>) /\ (role = "server" => (Masked <=> ~all_zero_nonce))
  <2> HIDE DEF c
  <2> QED BY <1>0, <1>6, <1>7, <1>8, Unmasked
<1>a. PICK e \in Nat : e = i + 1
  OBVIOUS
<1>b. m <= e /\ e <= N /\ N - e \in Nat /\ N - e < SizeMod
  <2>1. SizeMod \in Nat
    BY SizeModIs, RxAssumption, MulNat
  <2> QED BY <1>6, <1>7, <1>a, <2>1
<1>10. n = N - e
  <2>1. rx_packet_length - 1 = N - e
    BY <1>6, <1>7, <1>a
  <2> QED BY <1>b, <2>1, SizeHolds
<1>11. buffer = Run(Cur, m, e)
  <2>1. buffer = Append(Run(Cur, m, i), Byte(<<Cur, i + 1>>))
    BY <1>6, <1>9
  <2> QED BY <1>6, <1>7, <1>a, <2>1, RunMore, SMTT(60)
<1>12. \/ (n = 0 \/ Full(buffer)) /\ rx_user_buffer' = <<>> /\ Spill(buffer, n)
       \/ n # 0 /\ ~Full(buffer) /\ rx_user_buffer' = buffer /\ UNCHANGED outVars
  BY DEF RxPayload
<1> HIDE DEF c, b, buffer, n
<1>13. buffer \in Seq(Bytes) /\ Len(buffer) = e - m
  BY <1>7, <1>11, <1>b, RunIs, ZenonT(60) DEF IsRun
<1>14. opcode = Op /\ frame_is_binary = BinaryAt(written, Cur)
  BY <1>6 DEF Opened
<1>15. /\ n = 0 => wire' = <<>> /\ lws_rx_parse_state' = "NEW"
       /\ n # 0 => e < N /\ lws_rx_parse_state' = "PAYLOAD"
       /\ Remains(wire', TheFrame(key), PayloadAt + 1 + e)
  <2>1. p + 1 = PayloadAt + 1 + e /\ (n = 0 => p = PayloadAt + N) /\ (n # 0 => e < N)
    BY <1>5, <1>7, <1>10, <1>a, <1>b
  <2> QED BY <1>0, <1>4, <2>1
<1>16. role = "server" => KeyRead(key, 4)' /\ (~all_zero_nonce' => frame_mask_index' = e % 4)
  <2> SUFFICES ASSUME role = "server"
               PROVE  KeyRead(key, 4)' /\ (~all_zero_nonce' => frame_mask_index' = e % 4)
    OBVIOUS
  <2>1. KeyRead(key, 4)'
    BY <1>0, <1>6 DEF KeyRead
  <2>2. ASSUME ~all_zero_nonce' PROVE frame_mask_index' = e % 4
    <3>1. Masked /\ frame_mask_index = i % 4
      BY <1>0, <1>6, <1>9, <2>2
    <3>2. ((i % 4) + 1) % 4 = e % 4
      BY <1>a, QuarterMod
    <3> QED BY <1>0, <3>1, <3>2
  <2> QED BY <2>1, <2>2
<1>17. (n # 0 /\ Full(buffer) /\ PingFits) => Op \notin ControlOps
  <2> SUFFICES ASSUME n # 0, Full(buffer), PingFits, Op \in ControlOps PROVE FALSE
    OBVIOUS
  <2>1. N < Small /\ m = 0 /\ e < N /\ e - m = RxBuf /\ Small <= RxBuf + 1
    BY <1>6, <1>13, <1>15 DEF Full, PingFits
  <2>2. Small \in Nat /\ RxBuf \in Nat
    BY RxAssumption
  <2> QED BY <1>7, <1>a, <2>1, <2>2
<1>18. ASSUME NEW mm \in Nat, mm <= e, n # 0, GotTo(mm)', rx_user_buffer' = Run(Cur, mm, e),
              Op \in ControlOps => N < Small /\ (PingFits => mm = 0),
              conn' = "open", RxTypes', PiecesOK', PongsOK'
       PROVE  RxOrdered'
  <2>1. PICK q \in Nat : q = PayloadAt + 1 + e
    BY <1>7, <1>a
  <2>2. opcode' = Op /\ frame_is_binary' = BinaryAt(written, Cur) /\ this_frame_masked' = (role = "server")
        /\ rx_packet_length' = N - e
    BY <1>0, <1>6, <1>10, <1>14
  <2>3. e < N /\ lws_rx_parse_state' = "PAYLOAD"
    BY <1>15, <1>18
  <2>4. AtPayload(key, q)' /\ q \in 1 .. PayloadAt + N
    BY <1>0, <1>1, <1>16, <1>18, <2>1, <2>2, <2>3, PayloadGoesOn
  <2>5. Remains(wire', TheFrame(key), q)
    BY <1>15, <2>1
  <2> QED BY <1>0, <1>1, <1>18, <2>4, <2>5, NextBusy
<1>19. CASE (n = 0 \/ Full(buffer)) /\ rx_user_buffer' = <<>> /\ Spill(buffer, n)
  <2>1. PingFits /\ Op = "PING" => m = 0 /\ e = N
    <3> SUFFICES ASSUME PingFits, Op = "PING" PROVE m = 0 /\ e = N
      OBVIOUS
    <3>1. Op \in ControlOps
      BY DEF ControlOps
    <3>2. n = 0 /\ m = 0
      BY <1>6, <1>17, <1>19, <3>1
    <3> QED BY <1>7, <1>10, <3>2
  <2>2. Spill(Run(Cur, m, e), N - e)
    BY <1>10, <1>11, <1>19
  <2>3. /\ received' \in Seq(Pieces) /\ PiecesOK' /\ GotTo(e)'
        /\ pongs' \in Seq(Seq(Bytes)) /\ PongsOK' /\ conn' \in {"open", "closed"}
    BY <1>0, <1>1, <1>6, <1>b, <2>1, <2>2, SpillStep
  <2>4. RxTypes'
    <3>1. rx_user_buffer' \in Seq(Bytes)
      BY <1>19
    <3> QED BY <1>0, <1>4, <2>3, <3>1 DEF RxTypes
  <2>5. CASE conn' = "closed"
    <3>1. e \in 0 .. N
      BY <1>7, <1>b
    <3> QED BY <1>0, <1>1, <2>3, <2>4, <2>5, <3>1, NextOver
  <2>6. CASE conn' = "open" /\ n = 0
    <3>1. e = N /\ N' = N
      BY <1>0, <1>7, <1>10, <2>6, FrameStays DEF SameFrame
    <3>2. GotTo(N)'
      BY <2>3, <3>1
    <3>3. wire' = <<>> /\ lws_rx_parse_state' = "NEW" /\ rx_user_buffer' = <<>>
          /\ frame_is_binary' = BinaryAt(written, Cur)
      BY <1>0, <1>14, <1>15, <1>19, <2>6
    <3>4. Idle'
      BY <1>0, <1>1, <3>2, <3>3, FrameOver
    <3> QED BY <2>3, <2>4, <2>6, <3>4, NextIdle
  <2>7. CASE conn' = "open" /\ n # 0
    <3>1. rx_user_buffer' = Run(Cur, e, e) /\ e <= e
      BY <1>7, <1>19, RunEmpty
    <3>2. Op \in ControlOps => N < Small /\ (PingFits => e = 0)
      BY <1>6, <1>17, <1>19, <2>7
    <3> QED BY <1>18, <2>3, <2>4, <2>7, <3>1, <3>2
  <2> QED BY <2>3, <2>5, <2>6, <2>7
<1>20. CASE n # 0 /\ ~Full(buffer) /\ rx_user_buffer' = buffer /\ UNCHANGED outVars
  <2>1. received' = received /\ pongs' = pongs /\ conn' = "open"
    BY <1>0, <1>20 DEF outVars
  <2>2. received' \in Seq(Pieces) /\ pongs' \in Seq(Seq(Bytes)) /\ PiecesOK' /\ PongsOK' /\ GotTo(m)'
    BY <1>0, <1>6, <2>1, NothingGiven
  <2>3. RxTypes'
    BY <1>0, <1>4, <1>13, <1>20, <2>1, <2>2 DEF RxTypes
  <2>4. rx_user_buffer' = Run(Cur, m, e)
    BY <1>11, <1>20
  <2> QED BY <1>6, <1>18, <1>20, <1>b, <2>1, <2>2, <2>3, <2>4
<1> QED BY <1>12, <1>19, <1>20

LEMMA BusyHasBytes ==
  ASSUME RxTypes, Busy
  PROVE  wire # <<>>
<1>1. PICK key \in Keys : \E p \in 1 .. PayloadAt + N : Remains(wire, TheFrame(key), p)
  BY DEF Busy
<1>2. PICK p \in 1 .. PayloadAt + N : Remains(wire, TheFrame(key), p)
  BY <1>1
<1>3. FrameFacts(key)
  BY FrameHasFacts DEF Busy
<1>4. Len(TheFrame(key)) = PayloadAt + N /\ N \in Nat /\ PayloadAt \in Nat
  <2>1. /\ Len(TheFrame(key)) = PayloadAt + N /\ N \in Nat
        /\ HeaderLen \in {2, 4, 10} /\ PayloadAt = HeaderLen + (IF role = "server" THEN 4 ELSE 0)
    BY <1>3, ZenonT(60) DEF FrameFacts
  <2> QED BY <2>1, SMTT(60)
<1>5. Len(wire) = PayloadAt + N + 1 - p
  BY <1>2, <1>4 DEF Remains
<1>6. Len(wire) # 0
  BY <1>4, <1>5
<1> QED BY <1>6

---------------------------------------------------------------------------
(* The writer *)

(* wr is a prefix of ws. *)
Longer(wr, ws) ==
  /\ Len(wr) \in Nat /\ Len(ws) \in Nat /\ Len(wr) <= Len(ws)
  /\ \A i \in 1 .. Len(wr) : ws[i] = wr[i]

LEMMA PieceStays ==
  ASSUME NEW wr, NEW ws, Longer(wr, ws), NEW q, PieceIn(wr, q)
  PROVE  PieceIn(ws, q)
<1> DEFINE f == q.data[1].v[1]
<1>1. f \in 1 .. Len(wr)
  BY DEF PieceIn
<1>2. f \in 1 .. Len(ws) /\ ws[f] = wr[f] /\ f \in Nat /\ \A i \in 1 .. f : ws[i] = wr[i]
  BY <1>1, SMTT(60) DEF Longer
<1>3. BinaryAt(ws, f) = BinaryAt(wr, f)
  BY <1>2, BinarySame, SMTT(60)
<1> QED BY <1>2, <1>3 DEF PieceIn

LEMMA PingStays ==
  ASSUME NEW wr, NEW ws, Longer(wr, ws), NEW d, PingOf(wr, d)
  PROVE  PingOf(ws, d)
<1>1. PICK f \in 1 .. Len(wr) : wr[f].op = "PING" /\ d = Run(f, 0, wr[f].n)
  BY DEF PingOf
<1>2. f \in 1 .. Len(ws) /\ ws[f] = wr[f]
  BY DEF Longer
<1> QED BY <1>1, <1>2 DEF PingOf

LEMMA WriteStep ==
  ASSUME RxOrdered, NEW op \in DataOps \cup ControlOps, NEW n \in Lens, NEW key \in Keys, Write(op, n, key)
  PROVE  RxOrdered'
<1> DEFINE fr == Frame(op, n, role = "server", key, Cur + 1)
           x == [op |-> op, n |-> n]
<1>0. /\ RxTypes /\ PiecesOK /\ PongsOK /\ conn = "open" /\ wire = <<>>
      /\ written' = Append(written, x) /\ wire' = fr /\ (n = 0 => op \in ControlOps)
      /\ role' = role /\ lws_rx_parse_state' = lws_rx_parse_state /\ rx_user_buffer' = rx_user_buffer
      /\ frame_is_binary' = frame_is_binary /\ all_zero_nonce' = all_zero_nonce
      /\ frame_masking_nonce' = frame_masking_nonce /\ conn' = conn
      /\ received' = received /\ pongs' = pongs
  BY DEF RxOrdered, Write, frameVars, keyVars, outVars, Cur
<1>1. Idle
  BY <1>0, BusyHasBytes DEF RxOrdered
<1>2. /\ lws_rx_parse_state = "NEW" /\ rx_user_buffer = <<>> /\ frame_is_binary = BinaryAt(written, Cur)
      /\ GotOf(received) = SentOf(written, role, Cur)
  BY <1>1 DEF Idle
<1>3. n \in Nat /\ n < SizeMod
  BY LensAre
<1>4. x \in Frames /\ x.op = op /\ x.n = n
  BY DEF Frames
<1>5. written \in Seq(Frames) /\ Cur \in Nat /\ Len(written) = Cur
  BY <1>0 DEF RxTypes, Cur
<1>6. fr \in Seq(Bytes)
  <2>1. (role = "server") \in BOOLEAN /\ Cur + 1 \in Nat
    BY <1>5
  <2>2. IsFrame(fr, op, n, role = "server", key, Cur + 1)
    BY <1>3, <2>1, FrameAt
  <2> HIDE DEF fr
  <2> QED BY <2>2 DEF IsFrame
<1> HIDE DEF x, fr
<1>7. /\ written' \in Seq(Frames) /\ Len(written') = Cur + 1
      /\ \A i \in 1 .. Cur : written'[i] = written[i]
      /\ written'[Cur + 1] = x
  BY <1>0, <1>4, <1>5, AppendAt
<1>8. Cur' = Cur + 1 /\ Op' = op /\ N' = n /\ TheFrame(key)' = fr
  BY <1>0, <1>4, <1>7 DEF Cur, Op, N, TheFrame, fr
<1>9. Longer(written, written')
  BY <1>5, <1>7 DEF Longer
<1>10. PiecesOK'
  BY <1>0, <1>9, PieceStays DEF PiecesOK
<1>11. PongsOK'
  BY <1>0, <1>9, PingStays DEF PongsOK, PingFits
<1>12. ASSUME NEW i \in 1 .. Len(written'), written'[i].n = 0 PROVE written'[i].op \in ControlOps
  <2>1. i \in 1 .. Cur \/ i = Cur + 1
    BY <1>5, <1>7
  <2>2. CASE i \in 1 .. Cur
    BY <1>0, <1>5, <1>7, <1>12, <2>2 DEF RxTypes
  <2>3. CASE i = Cur + 1
    BY <1>0, <1>4, <1>7, <1>12, <2>3
  <2> QED BY <2>1, <2>2, <2>3
<1>13. RxTypes'
  BY <1>0, <1>6, <1>7, <1>12 DEF RxTypes
<1>14. Cur' > 0 /\ Cur' - 1 = Cur /\ Cur' \in Nat
  BY <1>5, <1>8
<1>15. frame_is_binary' = BinaryAt(written', Cur' - 1)
  <2>1. BinaryAt(written', Cur) = BinaryAt(written, Cur)
    BY <1>5, <1>7, BinarySame
  <2> QED BY <1>0, <1>2, <1>14, <2>1
<1>16. GotTo(0)'
  <2>1. SentOf(written', role, Cur) \in Seq(Bytes)
    BY <1>5, <1>7, SentNext
  <2>2. SentOf(written', role, Cur) = SentOf(written, role, Cur)
    BY <1>5, <1>7, SentSame
  <2>3. HeardOf(written', role, Cur', 0) = <<>>
    BY <1>14, HeardIs
  <2>4. PICK s \in Seq(Bytes) : s = SentOf(written', role, Cur)
    BY <2>1
  <2>5. s \o <<>> = s
    BY EmptyConcat
  <2>6. GotOf(received') = SentOf(written', role', Cur' - 1) \o HeardOf(written', role', Cur', 0)
    BY <1>0, <1>2, <1>14, <2>2, <2>3, <2>4, <2>5
  <2> QED BY <2>6 DEF GotTo
<1>17. AtNew(1)'
  BY <1>0, <1>2, <1>15, <1>16 DEF AtNew, Nothing
<1>18. 1 \in 1 .. PayloadAt' + N'
  <2>1. Len(LenField(n)) \in {1, 3, 9}
    BY <1>3, LenFieldAt DEF IsLenField
  <2>2. PICK l \in Nat : l = Len(LenField(n))
    BY <2>1
  <2>3. PICK k \in Nat : k = IF role' = "server" THEN 4 ELSE 0
    OBVIOUS
  <2>4. PayloadAt' + N' = (1 + l) + k + n
    BY <1>8, <2>2, <2>3 DEF PayloadAt, HeaderLen
  <2>5. 1 \in 1 .. (1 + l) + k + n
    BY <1>3
  <2> QED BY <2>4, <2>5
<1>19. Remains(wire, TheFrame(key), 1)'
  <2>1. wire' = fr /\ TheFrame(key)' = fr /\ Len(fr) \in Nat
    BY <1>0, <1>6, <1>8
  <2>2. Len(fr) = Len(fr) + 1 - 1 /\ \A i \in 1 .. Len(fr) : 1 - 1 + i = i
    BY <2>1
  <2> QED BY <2>1, <2>2 DEF Remains
<1>20. Busy'
  BY <1>14, <1>17, <1>18, <1>19 DEF Busy
<1> QED BY <1>0, <1>10, <1>11, <1>13, <1>20 DEF RxOrdered

---------------------------------------------------------------------------
(* The invariant *)

(* A frame without payload is never taken back. *)
LEMMA WrittenStep ==
  ASSUME written \in Seq(Frames), [RxNext]_rxVars
  PROVE  written' \in Seq(Frames) /\ (Derailed => Derailed')
<1>1. CASE written' = written /\ role' = role
  BY <1>1 DEF Derailed
<1>2. CASE \E op \in DataOps \cup ControlOps, n \in Lens, key \in Keys : Write(op, n, key)
  <2>1. PICK op \in DataOps \cup ControlOps, n \in Lens, key \in Keys : Write(op, n, key)
    BY <1>2
  <2>2. written' = Append(written, [op |-> op, n |-> n]) /\ role' = role
    BY <2>1 DEF Write
  <2>3. [op |-> op, n |-> n] \in Frames
    BY DEF Frames
  <2>4. written' \in Seq(Frames) /\ \A i \in DOMAIN written : i \in DOMAIN written' /\ written'[i] = written[i]
    BY <2>2, <2>3
  <2> QED BY <2>2, <2>4 DEF Derailed
<1>3. CASE Rx
  <2>1. written' = written /\ role' = role
    BY <1>3 DEF Rx, RxNew, RxHdrLen, RxLen, RxKey, RxPayload
  <2> QED BY <1>1, <2>1
<1>4. CASE UNCHANGED rxVars
  BY <1>1, <1>4 DEF rxVars
<1> QED BY <1>2, <1>3, <1>4 DEF RxNext

LEMMA OrderedStep ==
  ASSUME RxOrdered, ~Derailed, [RxNext]_rxVars
  PROVE  RxOrdered'
<1>1. CASE \E op \in DataOps \cup ControlOps, n \in Lens, key \in Keys : Write(op, n, key)
  BY <1>1, WriteStep
<1>2. CASE RxNew
  BY <1>2, RxNewStep
<1>3. CASE RxHdrLen
  BY <1>3, RxHdrLenStep
<1>4. CASE RxLen
  BY <1>4, RxLenStep
<1>5. CASE RxKey
  BY <1>5, RxKeyStep
<1>6. CASE RxPayload
  BY <1>6, RxPayloadStep
<1>7. CASE UNCHANGED rxVars
  <2>1. RxTypes' /\ PiecesOK' /\ PongsOK'
    BY <1>7 DEF rxVars, RxOrdered, RxTypes, PiecesOK, PongsOK, PingFits
  <2>2. Idle' = Idle
    BY <1>7 DEF rxVars, Idle, Cur
  <2>3. Over' = Over
    BY <1>7 DEF rxVars, Over, GotTo, Cur, N
  <2>4. Busy' = Busy
    BY <1>7 DEF rxVars, Busy, Cur, N, Op, PayloadAt, HeaderLen, TheFrame, Remains, AtNew, AtHdrLen, AtLen, AtKey,
                AtPayload, InPayload, Opened, Nothing, GotTo, KeyRead, PingFits
  <2> QED BY <1>7, <2>1, <2>2, <2>3, <2>4 DEF RxOrdered, rxVars
<1> QED BY <1>1, <1>2, <1>3, <1>4, <1>5, <1>6, <1>7 DEF RxNext, Rx

LEMMA SeqGrows ==
  ASSUME NEW S, NEW s \in Seq(S), NEW b
  PROVE  Append(s, b) \in Seq(S \cup {b}) /\ Len(Append(s, b)) = Len(s) + 1
<1>1. s \in Seq(S \cup {b})
  OBVIOUS
<1> QED BY <1>1, AppendAt

LEMMA BufferStep ==
  ASSUME IsSeq(rx_user_buffer), Len(rx_user_buffer) < RxBuf, [RxNext]_rxVars
  PROVE  IsSeq(rx_user_buffer)' /\ Len(rx_user_buffer') < RxBuf
<1>1. CASE rx_user_buffer' = rx_user_buffer
  BY <1>1 DEF IsSeq
<1>2. CASE RxPayload
  <2>0. RxBuf \in Nat \ {0}
    BY RxAssumption
  <2>1. PICK b : \/ rx_user_buffer' = <<>>
                 \/ rx_user_buffer' = Append(rx_user_buffer, b) /\ ~Full(Append(rx_user_buffer, b))
    BY <1>2 DEF RxPayload
  <2>2. CASE rx_user_buffer' = <<>>
    <3>1. <<>> \in Seq({}) /\ Len(<<>>) = 0
      OBVIOUS
    <3> QED BY <2>0, <2>2, <3>1 DEF IsSeq
  <2>3. CASE rx_user_buffer' = Append(rx_user_buffer, b) /\ ~Full(Append(rx_user_buffer, b))
    <3>1. PICK S : rx_user_buffer \in Seq(S)
      BY DEF IsSeq
    <3>2. rx_user_buffer' \in Seq(S \cup {b}) /\ Len(rx_user_buffer') = Len(rx_user_buffer) + 1
      BY <2>3, <3>1, SeqGrows
    <3>3. Len(rx_user_buffer) \in Nat
      BY <3>1
    <3>4. Len(rx_user_buffer') # RxBuf
      BY <2>3 DEF Full
    <3> QED BY <2>0, <3>2, <3>3, <3>4 DEF IsSeq
  <2> QED BY <2>1, <2>2, <2>3
<1>3. CASE \E op \in DataOps \cup ControlOps, n \in Lens, key \in Keys : Write(op, n, key)
  BY <1>1, <1>3 DEF Write
<1>4. CASE RxNew \/ RxHdrLen \/ RxLen \/ RxKey
  BY <1>1, <1>4 DEF RxNew, RxHdrLen, RxLen, RxKey
<1>5. CASE UNCHANGED rxVars
  BY <1>1, <1>5 DEF rxVars
<1> QED BY <1>2, <1>3, <1>4, <1>5 DEF RxNext, Rx

LEMMA RxInvStarts ==
  ASSUME RxInit
  PROVE  RxInv
<1>1. /\ written = <<>> /\ wire = <<>> /\ rx_user_buffer = <<>> /\ received = <<>> /\ pongs = <<>>
      /\ conn = "open" /\ lws_rx_parse_state = "NEW" /\ frame_is_binary = FALSE
  BY DEF RxInit
<1>2. Cur = 0
  BY <1>1 DEF Cur
<1>3. RxTypes
  <2>1. <<>> \in Seq(Frames) /\ <<>> \in Seq(Bytes) /\ <<>> \in Seq(Pieces) /\ <<>> \in Seq(Seq(Bytes)) /\ Len(<<>>) = 0
    OBVIOUS
  <2>2. \A i : i \notin 1 .. 0
    OBVIOUS
  <2>3. frame_masking_nonce \in [0 .. 3 -> {0, 1}]
    BY DEF RxInit
  <2> QED BY <1>1, <2>1, <2>2, <2>3 DEF RxTypes, RxInit
<1>4. PiecesOK /\ PongsOK
  BY <1>1 DEF PiecesOK, PongsOK
<1>5. Idle
  <2>1. BinaryAt(written, 0) = FALSE
    <3>1. Starts(written, 0) = {}
      BY DEF Starts
    <3> QED BY <3>1 DEF BinaryAt
  <2>2. GotOf(received) = SentOf(written, role, 0)
    BY <1>1, GotNone, SentNone
  <2> QED BY <1>1, <1>2, <2>1, <2>2 DEF Idle
<1>6. RxOrdered
  BY <1>1, <1>3, <1>4, <1>5 DEF RxOrdered
<1>7. IsSeq(rx_user_buffer) /\ Len(rx_user_buffer) < RxBuf
  <2>1. <<>> \in Seq({}) /\ Len(<<>>) = 0
    OBVIOUS
  <2> QED BY <1>1, <2>1, RxAssumption DEF IsSeq
<1> QED BY <1>3, <1>6, <1>7 DEF RxInv, RxTypes

LEMMA RxInvStep ==
  ASSUME RxInv, [RxNext]_rxVars
  PROVE  RxInv'
<1>1. IsSeq(rx_user_buffer)' /\ Len(rx_user_buffer') < RxBuf
  BY BufferStep DEF RxInv
<1>2. written' \in Seq(Frames) /\ (Derailed => Derailed')
  BY WrittenStep DEF RxInv
<1>3. ASSUME ~Derailed' PROVE RxOrdered'
  <2>1. ~Derailed
    BY <1>2, <1>3
  <2> QED BY <2>1, OrderedStep DEF RxInv
<1> QED BY <1>1, <1>2, <1>3 DEF RxInv

---------------------------------------------------------------------------
(* What the invariant says of the properties *)

LEMMA PrefixOf ==
  ASSUME NEW T, NEW s \in Seq(T), NEW t \in Seq(T), NEW u, u = s \o t
  PROVE  IsPrefix(s, u)
<1>1. /\ u \in Seq(T) /\ Len(u) = Len(s) + Len(t) /\ Len(s) \in Nat /\ Len(t) \in Nat
      /\ \A i \in 1 .. Len(s) : u[i] = s[i]
  BY ConcatAt
<1> DEFINE a == SubSeq(s, 1, Len(s))
           c == SubSeq(u, 1, Len(s))
<1>2. a \in Seq(T) /\ Len(a) = Len(s) /\ \A i \in 1 .. Len(s) : a[i] = s[i]
  OBVIOUS
<1>3. c \in Seq(T) /\ Len(c) = Len(s) /\ \A i \in 1 .. Len(s) : c[i] = u[i]
  BY <1>1
<1> HIDE DEF a, c
<1>4. a = c
  BY <1>1, <1>2, <1>3, SameSeq
<1> QED BY <1>1, <1>4 DEF IsPrefix, a, c

LEMMA PayloadIsRun ==
  ASSUME RxTypes, NEW f \in 1 .. Len(written)
  PROVE  Payload(f) = Run(f, 0, written[f].n)
<1>1. written[f].n \in Nat
  BY FrameFields DEF RxTypes
<1>2. written[f].n - 0 = written[f].n /\ \A k \in 1 .. written[f].n : 0 + k = k
  BY <1>1
<1> QED BY <1>2 DEF Payload, Run

LEMMA SentIs ==
  ASSUME RxTypes
  PROVE  SentPayloads = SentOf(written, role, Cur)
<1>1. DOMAIN written = 1 .. Cur
  BY DEF RxTypes, Cur
<1>2. Heard = HeardBy(role)
  BY DEF Heard, HeardBy
<1>3. ASSUME NEW i \in 1 .. Cur
      PROVE  (IF written[i].op \in Heard THEN Payload(i) ELSE <<>>) = HeardOf(written, role, i, written[i].n)
  BY <1>2, PayloadIsRun DEF HeardOf, Cur
<1>4. [i \in DOMAIN written |-> IF written[i].op \in Heard THEN Payload(i) ELSE <<>>]
        = [i \in 1 .. Cur |-> HeardOf(written, role, i, written[i].n)]
  BY <1>1, <1>3
<1> QED BY <1>4 DEF SentPayloads, SentOf

LEMMA GotIs ==
  ASSUME RxTypes
  PROVE  Got = GotOf(received)
<1>1. DOMAIN received = 1 .. Len(received)
  BY DEF RxTypes
<1> QED BY <1>1 DEF Got, GotOf

(* m of the bytes of the current frame have reached the user: those are a prefix. *)
LEMMA GotPrefix ==
  ASSUME RxTypes, Cur > 0, NEW m \in 0 .. N, GotTo(m)
  PROVE  IsPrefix(Got, SentPayloads)
<1>0. written \in Seq(Frames) /\ Cur = Len(written) /\ Cur \in 1 .. Len(written) /\ Cur \in Nat /\ N = written[Cur].n
  BY DEF RxTypes, Cur, N
<1>1. Cur - 1 \in Nat /\ Cur - 1 < Len(written) /\ (Cur - 1) + 1 = Cur
  BY <1>0
<1>2. N \in Nat /\ m \in Nat /\ m <= N
  BY <1>0, FrameFields
<1>c. Cur \in Nat
  BY <1>0
<1> DEFINE g == SentOf(written, role, Cur - 1)
           x == HeardOf(written, role, Cur, m)
           y == HeardOf(written, role, Cur, N)
<1>3. g \in Seq(Bytes) /\ SentOf(written, role, Cur) = g \o y
  BY <1>0, <1>1, SentNext
<1>4. x \in Seq(Bytes)
  BY <1>0, <1>2, HeardIs
<1>5. \E t \in Seq(Bytes) : y = x \o t
  <2>1. CASE written[Cur].op \in HeardBy(role)
    <3>0. PICK e \in Nat : e = N /\ m <= e
      BY <1>2
    <3>1. HeardOf(written, role, Cur, e) = HeardOf(written, role, Cur, m) \o Run(Cur, m, e)
      BY <1>c, <1>2, <2>1, <3>0, HeardAfter
    <3>2. Run(Cur, m, N) \in Seq(Bytes)
      BY <1>0, <1>2, RunIs DEF IsRun
    <3> QED BY <3>0, <3>1, <3>2
  <2>2. CASE written[Cur].op \notin HeardBy(role)
    <3>1. y = x
      BY <1>0, <1>2, <2>2, HeardMore
    <3>2. x \o <<>> = x /\ <<>> \in Seq(Bytes)
      <4> HIDE DEF x
      <4> QED BY <1>4, EmptyConcat
    <3> QED BY <3>1, <3>2
  <2> QED BY <2>1, <2>2
<1>6. GotOf(received) = g \o x
  BY DEF GotTo
<1> HIDE DEF g, x, y
<1>7. PICK t \in Seq(Bytes) : y = x \o t
  BY <1>5
<1>8. g \o x \in Seq(Bytes) /\ (g \o x) \o t = g \o (x \o t)
  BY <1>3, <1>4, ConcatAssoc, SMTT(60)
<1>9. PICK a \in Seq(Bytes) : a = g \o x
  BY <1>8
<1>10. PICK s : s = SentOf(written, role, Cur)
  OBVIOUS
<1>11. s = a \o t
  BY <1>3, <1>7, <1>8, <1>9, <1>10
<1>12. IsPrefix(a, s)
  BY <1>11, PrefixOf
<1> QED BY <1>6, <1>9, <1>10, <1>12, SentIs, GotIs

LEMMA BusyGot ==
  ASSUME RxTypes, Busy
  PROVE  \E m \in 0 .. N : GotTo(m)
<1>0. Cur \in 1 .. Len(written) /\ written \in Seq(Frames)
  BY DEF Busy, Cur, RxTypes
<1>1. N \in Nat
  BY <1>0, FrameFields DEF N
<1>2. PICK key \in Keys : \E p \in 1 .. PayloadAt + N :
        AtNew(p) \/ AtHdrLen(p) \/ AtLen(p) \/ AtKey(key, p) \/ AtPayload(key, p)
  BY DEF Busy
<1>3. PICK p \in 1 .. PayloadAt + N : AtNew(p) \/ AtHdrLen(p) \/ AtLen(p) \/ AtKey(key, p) \/ AtPayload(key, p)
  BY <1>2
<1>4. CASE AtNew(p) \/ AtHdrLen(p) \/ AtLen(p) \/ AtKey(key, p)
  <2>1. GotTo(0)
    BY <1>4 DEF AtNew, AtHdrLen, AtLen, AtKey, Nothing
  <2>2. 0 \in 0 .. N
    BY <1>1
  <2> QED BY <2>1, <2>2
<1>5. CASE AtPayload(key, p)
  <2>1. PICK i \in 0 .. N, m \in 0 .. N : InPayload(key, i, m)
    BY <1>5 DEF AtPayload
  <2>2. GotTo(m)
    BY <2>1 DEF InPayload
  <2> QED BY <2>2
<1> QED BY <1>3, <1>4, <1>5

LEMMA SelfPrefix ==
  ASSUME NEW s, Len(s) \in Nat
  PROVE  IsPrefix(s, s)
BY DEF IsPrefix

LEMMA InvReassembled ==
  ASSUME RxInv
  PROVE  Reassembled
<1> SUFFICES ASSUME ~Derailed
             PROVE  /\ IsPrefix(Got, SentPayloads)
                    /\ wire = <<>> /\ conn = "open" => Got = SentPayloads
                    /\ PingFits => \A i \in DOMAIN pongs : \E f \in DOMAIN written :
                         written[f].op = "PING" /\ pongs[i] = Payload(f)
  BY DEF Reassembled
<1>0. RxOrdered
  BY DEF RxInv
<1>1. RxTypes /\ PongsOK /\ conn \in {"open", "closed"} /\ received \in Seq(Pieces)
  BY <1>0 DEF RxOrdered, RxTypes
<1>a. Idle => IsPrefix(Got, SentPayloads) /\ Got = SentPayloads
  <2> HAVE Idle
  <2>1. Got = SentPayloads
    BY <1>1, SentIs, GotIs DEF Idle
  <2>2. Len(Got) \in Nat
    <3>1. [reason |-> "RECEIVE", data |-> <<>>, binary |-> TRUE, rest |-> 0] \in Pieces
      BY DEF Pieces
    <3>2. GotOf(received) \in Seq(Bytes)
      BY <1>1, <3>1, GotMore
    <3> QED BY <1>1, <3>2, GotIs
  <2>3. IsPrefix(Got, Got)
    BY <2>2, SelfPrefix
  <2> QED BY <2>1, <2>3
<1>b. Busy \/ Over => IsPrefix(Got, SentPayloads)
  <2> HAVE Busy \/ Over
  <2>1. Cur > 0 /\ \E m \in 0 .. N : GotTo(m)
    BY <1>1, BusyGot DEF Busy, Over
  <2> QED BY <1>1, <2>1, GotPrefix
<1>c. wire = <<>> /\ conn = "open" => Idle
  BY <1>0, <1>1, BusyHasBytes DEF RxOrdered
<1>d. ASSUME PingFits, NEW i \in DOMAIN pongs
      PROVE  \E f \in DOMAIN written : written[f].op = "PING" /\ pongs[i] = Payload(f)
  <2>1. i \in 1 .. Len(pongs) /\ DOMAIN written = 1 .. Len(written)
    BY <1>1 DEF RxTypes
  <2>2. PingOf(written, pongs[i])
    BY <1>1, <1>d, <2>1 DEF PongsOK
  <2>3. PICK f \in 1 .. Len(written) : written[f].op = "PING" /\ pongs[i] = Run(f, 0, written[f].n)
    BY <2>2 DEF PingOf
  <2>4. pongs[i] = Payload(f)
    BY <1>1, <2>3, PayloadIsRun
  <2> QED BY <2>1, <2>3, <2>4
<1>e. Idle \/ Busy \/ Over
  BY <1>0, <1>1 DEF RxOrdered
<1> QED BY <1>a, <1>b, <1>c, <1>d, <1>e

LEMMA InvDescribed ==
  ASSUME RxInv
  PROVE  PiecesDescribed
<1>1. Len(rx_user_buffer) < RxBuf
  BY DEF RxInv
<1>2. ASSUME ~Derailed, NEW i \in DOMAIN received
      PROVE  LET q == received[i]
                 f == q.data[1].v[1]
             IN /\ q.data[Len(q.data)].v[2] + q.rest = written[f].n
                /\ q.reason = "RECEIVE" => q.binary = StartsBinary(f)
  <2>1. received \in Seq(Pieces) /\ PiecesOK
    BY <1>2 DEF RxInv, RxOrdered, RxTypes
  <2>2. PieceIn(written, received[i])
    BY <2>1 DEF PiecesOK
  <2>3. \A f : StartsBinary(f) = BinaryAt(written, f)
    BY DEF StartsBinary, BinaryAt, Starts
  <2> QED BY <2>2, <2>3 DEF PieceIn
<1> QED BY <1>1, <1>2 DEF PiecesDescribed

---------------------------------------------------------------------------

(* The parser, after any frames and any bytes of the next one, is in the state that *)
(* its place in that frame asks for: the step from parse state to parse state of    *)
(* libwebsocket_rx_sm and libwebsocket_client_rx_sm never loses its place.          *)
THEOREM RxInvariant == RxSpec => []RxInv
<1>1. RxInit => RxInv
  BY RxInvStarts
<1>2. RxInv /\ [RxNext]_rxVars => RxInv'
  BY RxInvStep
<1> QED BY <1>1, <1>2, PTL DEF RxSpec

(* What the user is given, put together, is what was written, whatever the lengths, *)
(* the keys and the buffer: the masking, the extended lengths and the spilling of a *)
(* full buffer lose and double nothing.                                             *)
THEOREM RxReassembles == RxSpec => []Reassembled
<1>1. RxInv => Reassembled
  BY InvReassembled
<1> QED BY <1>1, RxInvariant, PTL

(* In every RECEIVE callback libwebsockets_remaining_packet_payload() and           *)
(* lws_frame_is_binary() tell the truth of the frame, and the buffer of             *)
(* rx_buffer_size bytes is not overrun, derailed or not.                            *)
THEOREM RxDescribes == RxSpec => []PiecesDescribed
<1>1. RxInv => PiecesDescribed
  BY InvDescribed
<1> QED BY <1>1, RxInvariant, PTL

=============================================================================
