------------------------------ MODULE GzProofs ------------------------------
(***************************************************************************)
(* A gzip file that is written holds what was given, and what is read from  *)
(* one is what it holds, for every size of buffer, every file and every      *)
(* sequence of calls.                                                        *)
(***************************************************************************)
EXTENDS GzFile, TLAPS, WellFoundedInduction

---------------------------------------------------------------------------
(* Sequences *)

(* An equation that the provers do not rewrite with. *)
Is(x, y) == x = y

(* A set of naturals has a smallest element. *)
LEMMA SmallestIn ==
  ASSUME NEW S, S \subseteq Nat, S # {}
  PROVE  \E x \in S : \A y \in S : x <= y
<1>1. PICK x \in S : \A y \in S : ~(<<y, x>> \in OpToRel(<, Nat))
  BY NatLessThanWellFounded, WFMin, Zenon
<1>2. ASSUME NEW y \in S PROVE x <= y
  <2>1. x \in Nat /\ y \in Nat
    OBVIOUS
  <2>2. ~(y < x)
    BY <1>1, <2>1, Zenon DEF OpToRel
  <2> QED BY <2>1, <2>2
<1> QED BY <1>2

(* Sequences put together, place by place. *)
LEMMA ConcatAt ==
  ASSUME NEW T, NEW s \in Seq(T), NEW t \in Seq(T)
  PROVE  /\ s \o t \in Seq(T) /\ Len(s \o t) = Len(s) + Len(t)
         /\ \A i \in 1 .. Len(s) : (s \o t)[i] = s[i]
         /\ \A i \in Len(s) + 1 .. Len(s) + Len(t) : (s \o t)[i] = t[i - Len(s)]
OBVIOUS

LEMMA AppendAt ==
  ASSUME NEW T, NEW s \in Seq(T), NEW x \in T
  PROVE  /\ Append(s, x) \in Seq(T) /\ Len(Append(s, x)) = Len(s) + 1
         /\ \A i \in 1 .. Len(s) : Append(s, x)[i] = s[i]
         /\ Append(s, x)[Len(s) + 1] = x
OBVIOUS

LEMMA ElementAt ==
  ASSUME NEW T, NEW s \in Seq(T), NEW i \in 1 .. Len(s)
  PROVE  s[i] \in T
OBVIOUS

LEMMA SameSeq ==
  ASSUME NEW T, NEW s \in Seq(T), NEW t \in Seq(T), Len(s) = Len(t),
         \A i \in 1 .. Len(s) : s[i] = t[i]
  PROVE  s = t
OBVIOUS

LEMMA EmptySeq ==
  ASSUME NEW T, NEW s \in Seq(T)
  PROVE  /\ s = <<>> <=> Len(s) = 0
         /\ Len(s) \in Nat /\ <<>> \in Seq(T)
OBVIOUS

LEMMA EmptyConcat ==
  ASSUME NEW T, NEW s \in Seq(T)
  PROVE  s \o <<>> = s /\ <<>> \o s = s
OBVIOUS

LEMMA ConcatAssoc ==
  ASSUME NEW T, NEW s \in Seq(T), NEW t \in Seq(T), NEW u \in Seq(T)
  PROVE  (s \o t) \o u = s \o (t \o u)
<1> DEFINE a == (s \o t) \o u
           b == s \o (t \o u)
<1>1. /\ a \in Seq(T) /\ b \in Seq(T) /\ Len(a) = Len(b) /\ Len(a) = Len(s) + Len(t) + Len(u)
  BY ConcatAt
<1>2. ASSUME NEW i \in 1 .. Len(a) PROVE a[i] = b[i]
  OBVIOUS
<1> HIDE DEF a, b
<1>3. a = b
  BY <1>1, <1>2, SameSeq
<1> QED BY <1>3 DEF a, b

Assoc(s, t, u) == (s \o t) \o u = s \o (t \o u)

LEMMA AssocIs ==
  ASSUME NEW T, NEW s \in Seq(T), NEW t \in Seq(T), NEW u \in Seq(T)
  PROVE  Assoc(s, t, u)
BY ConcatAssoc, SMTT(60) DEF Assoc

Regroup2(f, a, b, c) == f \o (a \o (b \o c)) = (f \o (a \o b)) \o c

LEMMA Regroup2Is ==
  ASSUME NEW T, NEW f \in Seq(T), NEW a \in Seq(T), NEW b \in Seq(T), NEW c \in Seq(T)
  PROVE  Regroup2(f, a, b, c)
<1>1. PICK x \in Seq(T) : x = a \o b
  BY ConcatAt
<1>2. Assoc(a, b, c) /\ Assoc(f, x, c)
  BY AssocIs
<1> QED BY <1>1, <1>2, Zenon DEF Assoc, Regroup2

LEMMA LesserIs ==
  ASSUME NEW a \in Int, NEW b \in Int
  PROVE  /\ Lesser(a, b) \in Int /\ Lesser(a, b) <= a /\ Lesser(a, b) <= b
         /\ Lesser(a, b) = a \/ Lesser(a, b) = b
BY DEF Lesser

(* The two parts of a sequence. *)
LEMMA TakeAt ==
  ASSUME NEW T, NEW s \in Seq(T), NEW n \in Nat, n <= Len(s)
  PROVE  /\ Take(s, n) \in Seq(T) /\ Len(Take(s, n)) = n
         /\ \A i \in 1 .. n : Take(s, n)[i] = s[i]
<1>1. Lesser(n, Len(s)) = n
  BY DEF Lesser
<1> QED BY <1>1 DEF Take

LEMMA TakeAll ==
  ASSUME NEW T, NEW s \in Seq(T), NEW n \in Nat, n >= Len(s)
  PROVE  Take(s, n) = s
<1>1. Lesser(n, Len(s)) = Len(s)
  BY DEF Lesser
<1>2. SubSeq(s, 1, Len(s)) = s
  OBVIOUS
<1> QED BY <1>1, <1>2 DEF Take

LEMMA DropAt ==
  ASSUME NEW T, NEW s \in Seq(T), NEW n \in Nat, n <= Len(s)
  PROVE  /\ Drop(s, n) \in Seq(T) /\ Len(Drop(s, n)) = Len(s) - n
         /\ \A i \in 1 .. Len(s) - n : Drop(s, n)[i] = s[n + i]
BY DEF Drop

LEMMA TakeDrop ==
  ASSUME NEW T, NEW s \in Seq(T), NEW n \in Nat, n <= Len(s)
  PROVE  Take(s, n) \o Drop(s, n) = s
<1>1. PICK a \in Seq(T) : a = Take(s, n)
  BY TakeAt
<1>2. PICK b \in Seq(T) : b = Drop(s, n)
  BY DropAt
<1>3. /\ Len(a) = n /\ \A i \in 1 .. n : a[i] = s[i]
      /\ Len(b) = Len(s) - n /\ \A i \in 1 .. Len(s) - n : b[i] = s[n + i]
  <2>1. Len(a) = n /\ \A i \in 1 .. n : a[i] = s[i]
    BY <1>1, TakeAt
  <2>2. Len(b) = Len(s) - n /\ \A i \in 1 .. Len(s) - n : b[i] = s[n + i]
    BY <1>2, DropAt
  <2> QED BY <2>1, <2>2
<1>4. PICK t \in Seq(T) : t = a \o b
  BY ConcatAt
<1>5. /\ Len(t) = Len(s)
      /\ \A i \in 1 .. n : t[i] = a[i]
      /\ \A i \in n + 1 .. Len(s) : t[i] = b[i - n]
  BY <1>3, <1>4, ConcatAt
<1>6. ASSUME NEW i \in 1 .. Len(s) PROVE t[i] = s[i]
  <2>1. CASE i <= n
    BY <1>3, <1>5, <2>1
  <2>2. CASE i > n
    <3>1. i - n \in 1 .. Len(s) - n /\ n + (i - n) = i /\ i \in n + 1 .. Len(s)
      BY <2>2
    <3> QED BY <1>3, <1>5, <3>1
  <2> QED BY <2>1, <2>2
<1> QED BY <1>1, <1>2, <1>4, <1>5, <1>6, SameSeq

LEMMA AppendConcat ==
  ASSUME NEW T, NEW s \in Seq(T), NEW t \in Seq(T), NEW x \in T
  PROVE  s \o Append(t, x) = Append(s \o t, x)
<1>1. PICK a \in Seq(T) : a = s \o Append(t, x)
  BY AppendAt, ConcatAt
<1>2. PICK b \in Seq(T) : b = Append(s \o t, x)
  BY AppendAt, ConcatAt
<1>3. Len(a) = Len(s) + Len(t) + 1 /\ Len(b) = Len(a)
  BY <1>1, <1>2
<1>4. ASSUME NEW i \in 1 .. Len(a) PROVE a[i] = b[i]
  BY <1>1, <1>2, <1>3
<1> QED BY <1>1, <1>2, <1>3, <1>4, SameSeq

---------------------------------------------------------------------------
(* What a file decodes to *)

Hows == {"look", "id1", "id2", "data", "end", "raw", "bad"}
Knowns == [how : Hows, data : Seq(Unit)]
Start == [how |-> "look", data |-> <<>>]

LEMMA DecodeType ==
  ASSUME NEW k \in Knowns, NEW u \in Unit
  PROVE  Decode(k, u) \in Knowns
<1>1. /\ k.data \o <<u>> \in Seq(Unit) /\ k.data \o <<ID1, u>> \in Seq(Unit)
      /\ k.data \o <<>> \in Seq(Unit)
  BY DEF Knowns, ID1, Unit
<1>2. After(k.how, u) \in Hows
  BY DEF Knowns, Hows, After
<1> QED BY <1>1, <1>2 DEF Knowns, Decode

DecodeAt(f, d, n) == IF n = 0 THEN Start ELSE Decode(d[n - 1], f[n])

Decodes(f, n, d) == \A i \in 0 .. n : d[i] = DecodeAt(f, d, i)

LEMMA DecodesMore ==
  ASSUME NEW f \in Seq(Unit), NEW n \in Nat, n < Len(f),
         NEW d \in [0 .. n -> Knowns], Decodes(f, n, d)
  PROVE  \E e \in [0 .. n + 1 -> Knowns] : Decodes(f, n + 1, e)
<1> DEFINE e == [i \in 0 .. n + 1 |-> IF i = n + 1 THEN Decode(d[n], f[n + 1]) ELSE d[i]]
<1>1. \A i \in 0 .. n : e[i] = d[i]
  OBVIOUS
<1>2. e[n + 1] = Decode(d[n], f[n + 1])
  OBVIOUS
<1>3. Decode(d[n], f[n + 1]) \in Knowns
  <2>1. d[n] \in Knowns /\ f[n + 1] \in Unit
    OBVIOUS
  <2> QED BY <2>1, DecodeType
<1>4. e \in [0 .. n + 1 -> Knowns]
  BY <1>3
<1> HIDE DEF e
<1>5. ASSUME NEW i \in 0 .. n + 1 PROVE e[i] = DecodeAt(f, e, i)
  <2>1. CASE i = n + 1
    <3>1. i - 1 = n /\ i # 0 /\ n \in 0 .. n
      BY <2>1
    <3> QED BY <1>1, <1>2, <2>1, <3>1 DEF DecodeAt
  <2>2. CASE i \in 0 .. n
    <3>1. i = 0 \/ i - 1 \in 0 .. n
      BY <2>2
    <3>2. DecodeAt(f, e, i) = DecodeAt(f, d, i)
      BY <1>1, <3>1 DEF DecodeAt
    <3> QED BY <1>1, <2>2, <3>2 DEF Decodes
  <2> QED BY <2>1, <2>2
<1> QED BY <1>4, <1>5 DEF Decodes

LEMMA DecodesAll ==
  ASSUME NEW f \in Seq(Unit)
  PROVE  \E d \in [0 .. Len(f) -> Knowns] : Decodes(f, Len(f), d)
<1> DEFINE Some(n) == \E d \in [0 .. n -> Knowns] : Decodes(f, n, d)
           C == {n \in 0 .. Len(f) : ~Some(n)}
<1> SUFFICES ASSUME ~Some(Len(f)) PROVE FALSE
  OBVIOUS
<1>0. Len(f) \in Nat
  OBVIOUS
<1> HIDE DEF Some
<1>1. PICK n \in C : \A k \in C : n <= k
  <2>1. C \subseteq Nat /\ Len(f) \in C
    BY <1>0
  <2> HIDE DEF C
  <2> QED BY <2>1, SmallestIn
<1>2. CASE n = 0
  <2>1. Start \in Knowns
    BY DEF Start, Knowns, Hows
  <2>2. Decodes(f, 0, [i \in 0 .. 0 |-> Start]) /\ [i \in 0 .. 0 |-> Start] \in [0 .. 0 -> Knowns]
    BY <2>1 DEF Decodes, DecodeAt
  <2>3. Some(0)
    BY <2>2 DEF Some
  <2> QED BY <1>2, <2>3
<1>3. CASE n # 0
  <2>1. n - 1 \in 0 .. Len(f) /\ n - 1 < Len(f) /\ n - 1 \in Nat /\ (n - 1) + 1 = n /\ ~(n <= n - 1)
    BY <1>0, <1>3
  <2>2. Some(n - 1)
    BY <1>1, <2>1
  <2>3. PICK d \in [0 .. n - 1 -> Knowns] : Decodes(f, n - 1, d)
    BY <2>2 DEF Some
  <2>4. \E e \in [0 .. (n - 1) + 1 -> Knowns] : Decodes(f, (n - 1) + 1, e)
    BY <2>1, <2>3, DecodesMore
  <2>5. Some(n)
    BY <2>1, <2>4 DEF Some
  <2> QED BY <2>5
<1> QED BY <1>2, <1>3

Agree(s, t, n) == \A i \in 1 .. n : s[i] = t[i]

(* Two files decode alike as far as they agree. *)
LEMMA DecodesOne ==
  ASSUME NEW f, NEW g, NEW n \in Nat, NEW d, NEW e, Decodes(f, n, d), Decodes(g, n, e),
         Agree(f, g, n)
  PROVE  \A i \in 0 .. n : d[i] = e[i]
<1> DEFINE C == {i \in 0 .. n : d[i] # e[i]}
<1> SUFFICES ASSUME C # {} PROVE FALSE
  OBVIOUS
<1>1. PICK k \in C : \A j \in C : k <= j
  <2>1. C \subseteq Nat
    OBVIOUS
  <2> HIDE DEF C
  <2> QED BY <2>1, SmallestIn
<1>2. k \in 0 .. n /\ d[k] # e[k] /\ d[k] = DecodeAt(f, d, k) /\ e[k] = DecodeAt(g, e, k)
  BY DEF Decodes
<1>3. CASE k = 0
  BY <1>2, <1>3 DEF DecodeAt
<1>4. CASE k # 0
  <2>1. k - 1 \in 0 .. n /\ ~(k <= k - 1) /\ k \in 1 .. n
    BY <1>2, <1>4
  <2>2. d[k - 1] = e[k - 1] /\ f[k] = g[k]
    BY <1>1, <2>1 DEF Agree
  <2> QED BY <1>2, <1>4, <2>2 DEF DecodeAt
<1> QED BY <1>3, <1>4

LEMMA DecodedIs ==
  ASSUME NEW f \in Seq(Unit)
  PROVE  \E d \in [0 .. Len(f) -> Knowns] : Decodes(f, Len(f), d) /\ Decoded(f) = d[Len(f)]
<1> DEFINE c == CHOOSE d : d = [n \in 0 .. Len(f) |->
                  IF n = 0 THEN [how |-> "look", data |-> <<>>] ELSE Decode(d[n - 1], f[n])]
<1>1. Decoded(f) = c[Len(f)]
  BY DEF Decoded
<1>2. PICK d \in [0 .. Len(f) -> Knowns] : Decodes(f, Len(f), d)
  BY DecodesAll
<1>3. d = [n \in 0 .. Len(f) |->
             IF n = 0 THEN [how |-> "look", data |-> <<>>] ELSE Decode(d[n - 1], f[n])]
  BY <1>2 DEF Decodes, DecodeAt, Start
<1>4. c = [n \in 0 .. Len(f) |->
             IF n = 0 THEN [how |-> "look", data |-> <<>>] ELSE Decode(c[n - 1], f[n])]
  BY <1>3
<1> HIDE DEF c
<1>5. Decodes(f, Len(f), c)
  BY <1>4 DEF Decodes, DecodeAt, Start
<1>6. Len(f) \in Nat
  OBVIOUS
<1>7. \A i \in 0 .. Len(f) : c[i] = d[i]
  <2>1. Agree(f, f, Len(f))
    BY DEF Agree
  <2> QED BY <1>2, <1>5, <1>6, <2>1, DecodesOne
<1> QED BY <1>1, <1>2, <1>6, <1>7

(* A unit more. *)
LEMMA DecodedMore ==
  ASSUME NEW f \in Seq(Unit), NEW u \in Unit
  PROVE  Decoded(f) \in Knowns /\ Decoded(Append(f, u)) = Decode(Decoded(f), u)
<1> DEFINE g == Append(f, u)
           n == Len(f)
<1>1. /\ g \in Seq(Unit) /\ n \in Nat /\ Len(g) = n + 1
      /\ \A i \in 1 .. n : g[i] = f[i]
      /\ g[n + 1] = u
  OBVIOUS
<1>2. PICK d \in [0 .. n -> Knowns] : Decodes(f, n, d) /\ Decoded(f) = d[n]
  BY DecodedIs
<1> HIDE DEF g, n
<1>3. PICK e \in [0 .. n + 1 -> Knowns] : Decodes(g, n + 1, e) /\ Decoded(g) = e[n + 1]
  <2>1. \E e \in [0 .. Len(g) -> Knowns] : Decodes(g, Len(g), e) /\ Decoded(g) = e[Len(g)]
    BY <1>1, DecodedIs
  <2> QED BY <1>1, <2>1
<1>4. Decodes(g, n, e) /\ e[n + 1] = DecodeAt(g, e, n + 1)
  BY <1>1, <1>3 DEF Decodes
<1>5. Agree(f, g, n)
  BY <1>1 DEF Agree
<1>6. \A i \in 0 .. n : d[i] = e[i]
  BY <1>1, <1>2, <1>4, <1>5, DecodesOne
<1>7. n \in 0 .. n /\ (n + 1) - 1 = n /\ n + 1 # 0
  BY <1>1
<1>8. Decoded(g) = Decode(d[n], u)
  BY <1>1, <1>3, <1>4, <1>6, <1>7 DEF DecodeAt
<1> QED BY <1>2, <1>7, <1>8 DEF g

LEMMA DecodedNone == Decoded(<<>>) = Start
<1>1. <<>> \in Seq(Unit) /\ Len(<<>>) = 0
  OBVIOUS
<1>2. PICK d : Decodes(<<>>, 0, d) /\ Decoded(<<>>) = d[0]
  BY <1>1, DecodedIs
<1> QED BY <1>2 DEF Decodes, DecodeAt

(* What a unit does where the decoder is. *)
LEMMA DecodeIn ==
  ASSUME NEW k \in Knowns
  PROVE  /\ k.how = "data" => \A u \in Byte : Decode(k, u) = [how |-> "data", data |-> Append(k.data, u)]
         /\ k.how = "data" => Decode(k, STREAM_END) = [how |-> "end", data |-> k.data]
         /\ k.how = "end" => Decode(k, TRAILER) = [how |-> "look", data |-> k.data]
         /\ k.how = "look" => Decode(k, ID1) = [how |-> "id1", data |-> k.data]
         /\ k.how = "id1" => Decode(k, ID2) = [how |-> "id2", data |-> k.data]
         /\ k.how = "id2" => Decode(k, DEFLATED) = [how |-> "data", data |-> k.data]
<1>1. k.data \in Seq(Unit) /\ k.data \o <<>> = k.data
  BY DEF Knowns
<1>2. ASSUME NEW u \in Byte PROVE k.data \o <<u>> = Append(k.data, u)
  BY <1>1 DEF Unit, Byte
<1>3. STREAM_END \notin Byte /\ TRAILER \notin Byte
  BY DEF STREAM_END, TRAILER, Byte
<1>4. /\ \A u \in Byte : After("data", u) = "data"
      /\ After("data", STREAM_END) = "end" /\ After("end", TRAILER) = "look"
      /\ After("look", ID1) = "id1" /\ After("id1", ID2) = "id2" /\ After("id2", DEFLATED) = "data"
  BY <1>3 DEF After
<1> QED BY <1>1, <1>2, <1>4 DEF Decode

(* Bytes of a member. *)
LEMMA DecodedBytes ==
  ASSUME NEW f \in Seq(Unit), NEW b \in Seq(Byte), Decoded(f).how = "data"
  PROVE  Decoded(f \o b) = [how |-> "data", data |-> Decoded(f).data \o b]
<1> DEFINE P(n) == Decoded(f \o Take(b, n)) = [how |-> "data", data |-> Decoded(f).data \o Take(b, n)]
           C == {n \in 0 .. Len(b) : ~P(n)}
<1>0. Len(b) \in Nat /\ b \in Seq(Unit) /\ Decoded(f) \in Knowns /\ Decoded(f).data \in Seq(Unit)
  <2>1. 0 \in Unit
    BY DEF Unit
  <2>2. Decoded(f) \in Knowns
    BY <2>1, DecodedMore
  <2> QED BY <2>2, SMTT(60) DEF Knowns, Byte, Unit
<1> SUFFICES ASSUME ~P(Len(b)) PROVE FALSE
  <2>1. Take(b, Len(b)) = b
    BY <1>0, TakeAll
  <2> QED BY <2>1
<1> HIDE DEF P
<1>1. PICK n \in C : \A k \in C : n <= k
  <2>1. C \subseteq Nat /\ Len(b) \in C
    BY <1>0
  <2> HIDE DEF C
  <2> QED BY <2>1, SmallestIn
<1>2. CASE n = 0
  <2>1. Take(b, 0) = <<>>
    <3>1. Take(b, 0) \in Seq(Unit) /\ Len(Take(b, 0)) = 0
      BY <1>0, TakeAt
    <3> QED BY <3>1
  <2>2. f \o <<>> = f /\ Decoded(f).data \o <<>> = Decoded(f).data
    BY <1>0, EmptyConcat
  <2>3. Decoded(f) = [how |-> "data", data |-> Decoded(f).data]
    BY <1>0 DEF Knowns
  <2>4. P(0)
    BY <2>1, <2>2, <2>3 DEF P
  <2> QED BY <1>2, <2>4
<1>3. CASE n # 0
  <2>1. n - 1 \in 0 .. Len(b) /\ n - 1 < Len(b) /\ n - 1 \in Nat /\ (n - 1) + 1 = n /\ ~(n <= n - 1)
    BY <1>0, <1>3
  <2>2. P(n - 1)
    BY <1>1, <2>1
  <2>3. PICK p \in Nat : p = n - 1
    BY <2>1
  <2>11. PICK t \in Seq(Unit) : t = Take(b, p) /\ Len(t) = p /\ \A i \in 1 .. p : t[i] = b[i]
    <3>1. p <= Len(b)
      BY <2>1, <2>3
    <3>2. b \in Seq(Unit)
      BY <1>0
    <3>3. /\ Take(b, p) \in Seq(Unit) /\ Len(Take(b, p)) = p
          /\ \A i \in 1 .. p : Take(b, p)[i] = b[i]
      BY <3>1, <3>2, TakeAt, ZenonT(60)
    <3> QED BY <3>3, ZenonT(60)
  <2>4. b[n] \in Byte /\ b[n] \in Unit
    BY <1>0, <2>1 DEF Byte, Unit
  <2>5. Take(b, n) = Append(t, b[n])
    <3>1. PICK v \in Seq(Unit) : v = Take(b, n) /\ Len(v) = n /\ \A i \in 1 .. n : v[i] = b[i]
      BY <1>0, <2>1, TakeAt
    <3>3. PICK x \in Seq(Unit) : x = Append(t, b[n])
      BY <2>4, AppendAt
    <3>4. Len(x) = n /\ \A i \in 1 .. n : x[i] = v[i]
      <4>1. Len(x) = p + 1 /\ (\A i \in 1 .. p : x[i] = t[i]) /\ x[p + 1] = b[n]
        BY <2>4, <2>11, <3>3, AppendAt
      <4>2. p + 1 = n /\ \A i \in 1 .. n : i \in 1 .. p \/ i = n
        BY <2>1, <2>3
      <4> QED BY <2>11, <3>1, <4>1, <4>2
    <3> QED BY <3>1, <3>3, <3>4, SameSeq
  <2>6. f \o Append(t, b[n]) = Append(f \o t, b[n])
    BY <1>0, <2>4, AppendConcat, SMTT(60)
  <2>12. PICK v \in Seq(Unit) : v = Decoded(f).data
    BY <1>0
  <2>13. v \o Append(t, b[n]) = Append(v \o t, b[n])
    BY <1>0, <2>4, AppendConcat, SMTT(60)
  <2>7. PICK g \in Seq(Unit) : g = f \o t
    BY ConcatAt
  <2>8. Decoded(g) = [how |-> "data", data |-> Decoded(f).data \o t]
    BY <2>2, <2>3, <2>7, <2>11 DEF P
  <2>9. Decoded(Append(g, b[n])) = [how |-> "data", data |-> Append(Decoded(g).data, b[n])]
    <3>1. Decoded(g) \in Knowns /\ Decoded(Append(g, b[n])) = Decode(Decoded(g), b[n])
      BY <2>4, DecodedMore
    <3>2. Decoded(g).how = "data"
      BY <2>8
    <3> QED BY <2>4, <3>1, <3>2, DecodeIn
  <2>10. P(n)
    BY <2>5, <2>6, <2>7, <2>8, <2>9, <2>12, <2>13 DEF P
  <2> QED BY <2>10
<1> QED BY <1>2, <1>3

(* The header of a member, and its end. *)
LEMMA DecodedHeader ==
  ASSUME NEW f \in Seq(Unit), Decoded(f).how = "look"
  PROVE  Decoded(f \o Header) = [how |-> "data", data |-> Decoded(f).data]
<1>1. ID1 \in Unit /\ ID2 \in Unit /\ DEFLATED \in Unit
  BY DEF ID1, ID2, DEFLATED, Unit
<1>2. f \o Header = Append(Append(Append(f, ID1), ID2), DEFLATED)
  BY <1>1 DEF Header
<1>3. PICK g \in Seq(Unit) : g = Append(f, ID1)
  BY <1>1, AppendAt
<1>4. PICK h \in Seq(Unit) : h = Append(g, ID2)
  BY <1>1, AppendAt
<1>5. Decoded(g) = [how |-> "id1", data |-> Decoded(f).data]
  BY <1>1, <1>3, DecodedMore, DecodeIn
<1>6. Decoded(h) = [how |-> "id2", data |-> Decoded(f).data]
  BY <1>1, <1>4, <1>5, DecodedMore, DecodeIn
<1>7. Decoded(Append(h, DEFLATED)) = [how |-> "data", data |-> Decoded(f).data]
  BY <1>1, <1>6, DecodedMore, DecodeIn
<1> QED BY <1>2, <1>3, <1>4, <1>7

LEMMA DecodedTrailer ==
  ASSUME NEW f \in Seq(Unit), Decoded(f).how = "data"
  PROVE  Decoded(f \o <<STREAM_END, TRAILER>>) = [how |-> "look", data |-> Decoded(f).data]
<1>1. STREAM_END \in Unit /\ TRAILER \in Unit
  BY DEF STREAM_END, TRAILER, Unit
<1>2. f \o <<STREAM_END, TRAILER>> = Append(Append(f, STREAM_END), TRAILER)
  BY <1>1
<1>3. PICK g \in Seq(Unit) : g = Append(f, STREAM_END)
  BY <1>1, AppendAt
<1>4. Decoded(g) = [how |-> "end", data |-> Decoded(f).data]
  BY <1>1, <1>3, DecodedMore, DecodeIn
<1>5. Decoded(Append(g, TRAILER)) = [how |-> "look", data |-> Decoded(f).data]
  BY <1>1, <1>4, DecodedMore, DecodeIn
<1> QED BY <1>2, <1>3, <1>5

---------------------------------------------------------------------------
(* Parts of a file *)

(* What is known of a file after n of its units. *)
Known(f, n) == Decoded(Take(f, n))

(* s begins with p. *)
Begins(p, s) == Len(p) <= Len(s) /\ \A i \in 1 .. Len(p) : s[i] = p[i]

LEMMA TakeNext ==
  ASSUME NEW T, NEW s \in Seq(T), NEW n \in Nat, n < Len(s)
  PROVE  Take(s, n + 1) = Append(Take(s, n), s[n + 1])
<1>1. PICK p \in Seq(T) : p = Take(s, n) /\ Len(p) = n /\ \A i \in 1 .. n : p[i] = s[i]
  BY TakeAt
<1>2. Len(s) \in Nat /\ n + 1 \in Nat /\ n + 1 <= Len(s) /\ n + 1 \in 1 .. Len(s)
  OBVIOUS
<1>3. PICK q \in Seq(T) : q = Take(s, n + 1) /\ Len(q) = n + 1 /\ \A i \in 1 .. n + 1 : q[i] = s[i]
  BY <1>2, TakeAt, SMTT(60)
<1>4. s[n + 1] \in T
  BY <1>2, ElementAt
<1>8. PICK x \in T : x = s[n + 1]
  BY <1>4
<1>9. PICK r \in Seq(T) : r = Append(p, x)
  BY AppendAt
<1>10. Len(r) = Len(p) + 1 /\ (\A i \in 1 .. Len(p) : r[i] = p[i]) /\ r[Len(p) + 1] = x
  BY <1>9, AppendAt
<1>5. r = Append(p, s[n + 1]) /\ Len(r) = n + 1 /\ (\A i \in 1 .. n : r[i] = p[i]) /\ r[n + 1] = s[n + 1]
  BY <1>1, <1>8, <1>9, <1>10
<1>6. \A i \in 1 .. n + 1 : q[i] = r[i]
  BY <1>1, <1>3, <1>5, SMTT(60)
<1>7. q = r
  BY <1>3, <1>5, <1>6, SameSeq
<1> QED BY <1>1, <1>3, <1>5, <1>7

LEMMA KnownType ==
  ASSUME NEW f \in Seq(Unit), NEW n \in Nat, n <= Len(f)
  PROVE  Known(f, n) \in Knowns /\ Known(f, n).how \in Hows /\ Known(f, n).data \in Seq(Unit)
<1>1. Take(f, n) \in Seq(Unit) /\ 0 \in Unit
  BY TakeAt DEF Unit
<1>2. Known(f, n) \in Knowns
  BY <1>1, DecodedMore DEF Known
<1> QED BY <1>2 DEF Knowns

LEMMA KnownAll ==
  ASSUME NEW f \in Seq(Unit)
  PROVE  Known(f, Len(f)) = Decoded(f) /\ Decoded(f).how \in Hows /\ Decoded(f).data \in Seq(Unit)
<1>1. Len(f) \in Nat /\ Take(f, Len(f)) = f
  BY TakeAll
<1>2. Known(f, Len(f)) = Decoded(f)
  BY <1>1 DEF Known
<1> QED BY <1>1, <1>2, KnownType

LEMMA KnownNext ==
  ASSUME NEW f \in Seq(Unit), NEW n \in Nat, n < Len(f)
  PROVE  f[n + 1] \in Unit /\ Known(f, n + 1) = Decode(Known(f, n), f[n + 1])
<1>1. f[n + 1] \in Unit
  <2>1. n + 1 \in 1 .. Len(f)
    OBVIOUS
  <2> QED BY <2>1, ElementAt
<1>2. Take(f, n + 1) = Append(Take(f, n), f[n + 1]) /\ Take(f, n) \in Seq(Unit)
  BY TakeNext, TakeAt
<1> QED BY <1>1, <1>2, DecodedMore DEF Known

(* What a unit adds to the data. *)
Adds(k, u) == IF k.how = "id1" /\ After(k.how, u) = "raw" THEN <<ID1, u>>
              ELSE IF After(k.how, u) = "raw" \/ (k.how = "data" /\ After(k.how, u) = "data") THEN <<u>>
              ELSE <<>>

LEMMA DecodeAdds ==
  ASSUME NEW k \in Knowns, NEW u \in Unit
  PROVE  /\ Adds(k, u) \in Seq(Unit)
         /\ Decode(k, u).how = After(k.how, u) /\ Decode(k, u).data = k.data \o Adds(k, u)
<1>1. <<u>> \in Seq(Unit) /\ <<ID1, u>> \in Seq(Unit) /\ <<>> \in Seq(Unit)
  BY DEF ID1, Unit
<1>2. Adds(k, u) \in Seq(Unit)
  BY <1>1, Zenon DEF Adds
<1>3. Decode(k, u) = [how |-> After(k.how, u), data |-> k.data \o Adds(k, u)]
  BY Zenon DEF Adds, Decode
<1> QED BY <1>2, <1>3

LEMMA BeginsConcat ==
  ASSUME NEW T, NEW s \in Seq(T), NEW t \in Seq(T)
  PROVE  Begins(s, s \o t)
<1>1. PICK x \in Seq(T) : x = s \o t
  BY ConcatAt
<1>2. Len(x) = Len(s) + Len(t) /\ (\A i \in 1 .. Len(s) : x[i] = s[i]) /\ Len(s) \in Nat /\ Len(t) \in Nat
  BY <1>1, ConcatAt
<1>3. Begins(s, x)
  BY <1>2 DEF Begins
<1> QED BY <1>1, <1>3

LEMMA BeginsTrans ==
  ASSUME NEW T, NEW s \in Seq(T), NEW t \in Seq(T), NEW u \in Seq(T), Begins(s, t), Begins(t, u)
  PROVE  Begins(s, u)
<1>1. Len(s) \in Nat /\ Len(t) \in Nat /\ Len(u) \in Nat
  OBVIOUS
<1> QED BY <1>1 DEF Begins

LEMMA BeginsSelf ==
  ASSUME NEW T, NEW s \in Seq(T)
  PROVE  Begins(s, s)
BY DEF Begins

(* Data that has been decoded stays. *)
LEMMA DataStays ==
  ASSUME NEW f \in Seq(Unit), NEW m \in Nat, NEW n \in Nat, m <= n, n <= Len(f)
  PROVE  Begins(Known(f, m).data, Known(f, n).data)
<1> DEFINE P(i) == Begins(Known(f, m).data, Known(f, i).data)
           C == {i \in m .. n : ~P(i)}
<1>1. Len(f) \in Nat /\ Known(f, m).data \in Seq(Unit)
  BY KnownType
<1>2. P(m)
  BY <1>1, BeginsSelf
<1>3. ASSUME NEW i \in m .. n, i < n, P(i) PROVE P(i + 1)
  <2>1. i \in Nat /\ i < Len(f) /\ i <= Len(f)
    <3>1. Len(f) \in Nat /\ i < n /\ n <= Len(f) /\ i \in m .. n
      BY <1>1, <1>3
    <3> QED BY <3>1
  <2>2. Known(f, i) \in Knowns /\ Known(f, i).data \in Seq(Unit)
    BY <2>1, KnownType
  <2>3. f[i + 1] \in Unit /\ Known(f, i + 1) = Decode(Known(f, i), f[i + 1])
    BY <2>1, KnownNext
  <2>4. Adds(Known(f, i), f[i + 1]) \in Seq(Unit) /\ Known(f, i + 1).data = Known(f, i).data \o Adds(Known(f, i), f[i + 1])
    BY <2>2, <2>3, DecodeAdds
  <2>5. Known(f, i + 1).data \in Seq(Unit)
    BY <2>2, <2>4, ConcatAt, ZenonT(60)
  <2>6. Begins(Known(f, i).data, Known(f, i + 1).data)
    BY <2>2, <2>4, BeginsConcat
  <2> QED BY <1>1, <1>3, <2>2, <2>5, <2>6, BeginsTrans
<1>4. CASE C # {}
  <2>1. C \subseteq Nat
    OBVIOUS
  <2> HIDE DEF P
  <2>2. PICK i \in C : \A j \in C : i <= j
    BY <1>4, <2>1, SmallestIn
  <2>3. i \in m .. n /\ ~P(i) /\ i # m
    BY <1>2
  <2>4. i - 1 \in m .. n /\ i - 1 < n /\ (i - 1) + 1 = i
    BY <2>3
  <2>5. P(i - 1)
    BY <2>2, <2>4
  <2>6. P((i - 1) + 1)
    BY <1>3, <2>4, <2>5
  <2> QED BY <2>3, <2>4, <2>6
<1>5. CASE C = {}
  <2>1. n \in m .. n
    OBVIOUS
  <2> QED BY <1>5, <2>1
<1> QED BY <1>4, <1>5

LEMMA BeginsTake ==
  ASSUME NEW T, NEW s \in Seq(T), NEW n \in Nat
  PROVE  Take(s, n) \in Seq(T) /\ Begins(Take(s, n), s)
<1>1. CASE n <= Len(s)
  <2>1. Take(s, n) \in Seq(T) /\ Len(Take(s, n)) = n /\ \A i \in 1 .. n : Take(s, n)[i] = s[i]
    BY <1>1, TakeAt
  <2> QED BY <1>1, <2>1 DEF Begins
<1>2. CASE n > Len(s)
  <2>1. n >= Len(s)
    BY <1>2
  <2>2. Take(s, n) = s
    BY <2>1, TakeAll
  <2> QED BY <2>2, BeginsSelf
<1> QED BY <1>1, <1>2

LEMMA BeginsJoin ==
  ASSUME NEW T, NEW f \in Seq(T), NEW x \in Seq(T), NEW y \in Seq(T), Begins(x, y)
  PROVE  f \o x \in Seq(T) /\ f \o y \in Seq(T) /\ Begins(f \o x, f \o y)
<1>1. PICK a \in Seq(T) : a = f \o x
  BY ConcatAt
<1>2. PICK b \in Seq(T) : b = f \o y
  BY ConcatAt
<1>3. PICK m \in Nat, k \in Nat, n \in Nat : m = Len(f) /\ k = Len(x) /\ n = Len(y) /\ k <= n
  BY DEF Begins
<1>4. /\ Len(a) = m + k /\ (\A i \in 1 .. m : a[i] = f[i])
      /\ \A i \in m + 1 .. m + k : a[i] = x[i - m]
  BY <1>1, <1>3, ConcatAt
<1>5. /\ Len(b) = m + n /\ (\A i \in 1 .. m : b[i] = f[i])
      /\ \A i \in m + 1 .. m + n : b[i] = y[i - m]
  BY <1>2, <1>3, ConcatAt
<1>6. \A j \in 1 .. k : y[j] = x[j]
  BY <1>3 DEF Begins
<1>7. ASSUME NEW i \in 1 .. m + k PROVE b[i] = a[i]
  <2>1. CASE i <= m
    <3>1. i \in 1 .. m
      BY <2>1
    <3> QED BY <1>4, <1>5, <3>1
  <2>2. CASE i > m
    <3>1. PICK j \in 1 .. k : j = i - m
      BY <2>2
    <3>2. i \in m + 1 .. m + k /\ i \in m + 1 .. m + n
      BY <1>3, <2>2
    <3>3. a[i] = x[j] /\ b[i] = y[j]
      BY <1>4, <1>5, <3>1, <3>2
    <3> QED BY <1>6, <3>3
  <2> QED BY <2>1, <2>2
<1>8. Len(a) <= Len(b)
  BY <1>3, <1>4, <1>5
<1>9. \A i \in 1 .. Len(a) : b[i] = a[i]
  BY <1>4, <1>7
<1>10. Begins(a, b)
  BY <1>8, <1>9, Zenon DEF Begins
<1> QED BY <1>1, <1>2, <1>10

(* A part of a file decodes to a part of its data. *)
LEMMA PartData ==
  ASSUME NEW u \in Seq(Unit), NEW v \in Seq(Unit), Begins(v, u)
  PROVE  Decoded(v).data \in Seq(Unit) /\ Begins(Decoded(v).data, Decoded(u).data)
<1>1. PICK n \in Nat : n = Len(v) /\ n <= Len(u)
  BY DEF Begins
<1>2. Take(u, n) = v
  <2>0. n <= Len(u)
    BY <1>1
  <2>1. PICK t \in Seq(Unit) : t = Take(u, n) /\ Len(t) = n /\ \A i \in 1 .. n : t[i] = u[i]
    <3>1. Take(u, n) \in Seq(Unit) /\ Len(Take(u, n)) = n /\ \A i \in 1 .. n : Take(u, n)[i] = u[i]
      BY <2>0, TakeAt
    <3> QED BY <3>1
  <2>2. \A i \in 1 .. Len(t) : t[i] = v[i]
    BY <1>1, <2>1 DEF Begins
  <2> QED BY <1>1, <2>1, <2>2, SameSeq
<1>3. Len(u) \in Nat /\ Begins(Known(u, n).data, Known(u, Len(u)).data)
  BY <1>1, DataStays
<1>4. Known(u, n) = Decoded(v)
  BY <1>2 DEF Known
<1> QED BY <1>3, <1>4, KnownAll

---------------------------------------------------------------------------
(* Writing *)

Flushes == {"NO", "SYNC", "FINISH", "PARTIAL"}

Fields == {"size", "in", "begun", "finishing", "held", "pend", "out", "room", "pos", "seek", "level", "err"}

WriterOK(s) ==
  /\ DOMAIN s = Fields /\ s.size \in {0, Want} /\ s.room \in Nat /\ s.seek \in Nat
  /\ s.in \in Seq(Byte) /\ s.held \in Seq(Byte) /\ s.pend \in Seq(Unit) /\ s.out \in Seq(Unit)
  /\ s.begun \in BOOLEAN /\ s.finishing \in BOOLEAN

(* The units f, decoded, are d of a member that is begun or not. *)
DecodesTo(f, begun, d) == f \in Seq(Unit) /\ Decoded(f) = [how |-> IF begun THEN "data" ELSE "look", data |-> d]

(* A writer that has not failed: its file, its output buffer and what deflate() has made and
   not handed over yet decode to data; with what deflate() holds back and what waits
   in the input buffer that is what was given. *)
Holds(s, f, gv) ==
  /\ WriterOK(s) /\ ~s.finishing /\ s.err = "OK" /\ (s.begun \/ s.held = <<>>)
  /\ f \in Seq(Unit)
  /\ \E d \in Seq(Unit) : /\ DecodesTo(f \o (s.out \o s.pend), s.begun, d)
                          /\ Is(d \o (s.held \o s.in), gv)

(* Everything has been written. *)
Empty(s) == s.out = <<>> /\ s.pend = <<>> /\ s.held = <<>> /\ s.in = <<>>

Regrouped(p, a, b, c) == ((p \o a) \o b) \o c = p \o ((a \o b) \o c)

LEMMA Regroup ==
  ASSUME NEW T, NEW p \in Seq(T), NEW a \in Seq(T), NEW b \in Seq(T), NEW c \in Seq(T)
  PROVE  Regrouped(p, a, b, c)
BY SMTT(60) DEF Regrouped

LEMMA UnitsBytes == Seq(Byte) \subseteq Seq(Unit)
BY SMTT(60) DEF Byte, Unit

HeadOf(begun) == IF begun THEN <<>> ELSE Header
TailOf(fin) == IF fin THEN <<STREAM_END, TRAILER>> ELSE <<>>

(* What deflate() puts out, after its header or before its trailer. *)
LEMMA DeflateDecodes ==
  ASSUME NEW pre \in Seq(Unit), NEW d \in Seq(Unit), NEW begun \in BOOLEAN, NEW fin \in BOOLEAN,
         DecodesTo(pre, begun, d), NEW body \in Seq(Unit), body \in Seq(Byte),
         NEW hd \in Seq(Unit), Is(hd, HeadOf(begun)),
         NEW tl \in Seq(Unit), Is(tl, TailOf(fin)),
         NEW more \in Seq(Unit), Is(more, (hd \o body) \o tl)
  PROVE  /\ DecodesTo(pre \o more, ~fin, d \o body)
         /\ more = <<>> => begun /\ ~fin
<1>1. body \in Seq(Unit)
  OBVIOUS
<1>2. PICK x \in Seq(Unit) : x = pre \o hd
  BY ConcatAt
<1>3. Decoded(x).how = "data" /\ Decoded(x).data = d
  <2>1. Decoded(pre) = [how |-> IF begun THEN "data" ELSE "look", data |-> d]
    BY DEF DecodesTo
  <2>2. CASE begun
    BY <1>2, <2>1, <2>2, EmptyConcat DEF Is, HeadOf, TailOf
  <2>3. CASE ~begun
    <3>1. Decoded(pre).how = "look" /\ Decoded(pre).data = d
      BY <2>1, <2>3
    <3>2. Decoded(pre \o Header) = [how |-> "data", data |-> Decoded(pre).data]
      BY <3>1, DecodedHeader
    <3> QED BY <1>2, <2>3, <3>1, <3>2 DEF Is, HeadOf, TailOf
  <2> QED BY <2>2, <2>3
<1>4. PICK y \in Seq(Unit) : y = x \o body
  BY <1>1, ConcatAt
<1>5. Decoded(y) = [how |-> "data", data |-> d \o body]
  <2>1. Decoded(x \o body) = [how |-> "data", data |-> Decoded(x).data \o body]
    BY <1>3, DecodedBytes
  <2> QED BY <1>3, <1>4, <2>1
<1>6. PICK z \in Seq(Unit) : z = y \o tl
  BY ConcatAt
<1>7. Decoded(z) = [how |-> IF fin THEN "look" ELSE "data", data |-> d \o body]
  <2>2. CASE ~fin
    BY <1>5, <1>6, <2>2, EmptyConcat DEF Is, HeadOf, TailOf
  <2>3. CASE fin
    <3>1. Decoded(y).how = "data" /\ Decoded(y).data = d \o body
      BY <1>5
    <3>2. Decoded(y \o <<STREAM_END, TRAILER>>) = [how |-> "look", data |-> Decoded(y).data]
      BY <3>1, DecodedTrailer
    <3> QED BY <1>6, <2>3, <3>1, <3>2 DEF Is, HeadOf, TailOf
  <2> QED BY <2>2, <2>3
<1>8. z = pre \o more
  <2>1. Regrouped(pre, hd, body, tl)
    BY Regroup
  <2> QED BY <1>2, <1>4, <1>6, <2>1 DEF Is, Regrouped
<1>9. more = <<>> => begun /\ ~fin
  <2>1. Len(more) = Len(hd) + Len(body) + Len(tl) /\ Len(hd) \in Nat /\ Len(tl) \in Nat /\ Len(body) \in Nat
    BY <1>1 DEF Is
  <2>2. Len(Header) = 3 /\ Len(<<STREAM_END, TRAILER>>) = 2
    BY DEF Header
  <2>3. CASE ~begun
    <3>1. Len(hd) = 3
      BY <2>2, <2>3 DEF Is, HeadOf
    <3>2. Len(more) # 0
      BY <2>1, <3>1
    <3> QED BY <3>2
  <2>4. CASE fin
    <3>1. Len(tl) = 2
      BY <2>2, <2>4 DEF Is, TailOf
    <3>2. Len(more) # 0
      BY <2>1, <3>1
    <3> QED BY <3>2
  <2> QED BY <2>3, <2>4
<1> QED BY <1>6, <1>7, <1>8, <1>9 DEF DecodesTo

(* deflate() keeps back nothing or, if it is not told to flush, everything. *)
KeepOK(s, flush, keep) == keep = 0 \/ (flush = "NO" /\ keep = Len(s.held) + Len(s.in))

Deflating(s, flush, keep, pre, d, more, held, e) ==
  /\ deflated(s, flush, keep) =
       [s EXCEPT !.in = <<>>, !.held = held, !.begun = TRUE, !.finishing = flush = "FINISH",
                 !.pend = s.pend \o more]
  /\ DecodesTo(pre \o more, flush # "FINISH", e)
  /\ e \o held = d \o (s.held \o s.in)
  /\ flush # "NO" => held = <<>>
  /\ more = <<>> => s.begun /\ flush # "FINISH"

(* What deflate() makes. *)
LEMMA DeflatedIs ==
  ASSUME NEW s, WriterOK(s), ~s.finishing, NEW flush \in Flushes, NEW keep \in Nat,
         KeepOK(s, flush, keep),
         NEW pre \in Seq(Unit), NEW d \in Seq(Unit), DecodesTo(pre, s.begun, d)
  PROVE  \E more \in Seq(Unit), held \in Seq(Byte), e \in Seq(Unit) :
           Deflating(s, flush, keep, pre, d, more, held, e)
<1>1. /\ s.held \in Seq(Byte) /\ s.in \in Seq(Byte) /\ s.pend \in Seq(Unit) /\ s.begun \in BOOLEAN
  BY DEF WriterOK
<1>2. PICK all \in Seq(Unit) : all = s.held \o s.in /\ all \in Seq(Byte) /\ Len(all) = Len(s.held) + Len(s.in)
  <2>1. PICK a \in Seq(Byte) : a = s.held
    BY <1>1
  <2>2. PICK b \in Seq(Byte) : b = s.in
    BY <1>1
  <2>3. a \o b \in Seq(Byte) /\ Len(a \o b) = Len(a) + Len(b)
    BY ConcatAt
  <2>4. a \o b \in Seq(Unit)
    BY <2>3, UnitsBytes
  <2> QED BY <2>1, <2>2, <2>3, <2>4
<1>3. /\ Is(Len(all), Len(s.held) + Len(s.in)) /\ Len(all) \in Nat
      /\ Len(s.held) \in Nat /\ Len(s.in) \in Nat
  <2>1. Len(all) \in Nat /\ Len(s.held) \in Nat /\ Len(s.in) \in Nat
    BY <1>1
  <2> QED BY <1>2, <2>1 DEF Is
<1>4. PICK n \in Nat : n = IF flush = "NO" THEN Len(all) - keep ELSE Len(all)
  <2>1. Len(all) - keep \in Nat \/ flush # "NO"
    <3>1. CASE keep = 0
      BY <1>3, <3>1
    <3>2. CASE flush = "NO" /\ keep = Len(s.held) + Len(s.in)
      <4>1. keep = Len(all)
        BY <1>3, <3>2 DEF Is, HeadOf, TailOf
      <4> QED BY <1>3, <4>1
    <3> QED BY <3>1, <3>2 DEF KeepOK
  <2> QED BY <1>3, <2>1
<1>5. n <= Len(all) /\ (flush # "NO" => n = Len(all))
  <2>1. CASE flush = "NO"
    <3>1. n = Len(all) - keep
      BY <1>4, <2>1
    <3> QED BY <1>3, <2>1, <3>1
  <2>2. CASE flush # "NO"
    <3>1. n = Len(all)
      BY <1>4, <2>2
    <3> QED BY <1>3, <2>2, <3>1
  <2> QED BY <2>1, <2>2
<1>6. PICK body \in Seq(Unit) : body = Take(all, n) /\ body \in Seq(Byte)
  <2>1. Take(all, n) \in Seq(Unit) /\ Take(all, n) \in Seq(Byte)
    BY <1>2, <1>5, TakeAt
  <2> QED BY <2>1
<1>7. PICK held \in Seq(Unit) : held = Drop(all, n) /\ Len(held) = Len(all) - n /\ held \in Seq(Byte)
  <2>1. Drop(all, n) \in Seq(Unit) /\ Drop(all, n) \in Seq(Byte) /\ Len(Drop(all, n)) = Len(all) - n
    BY <1>2, <1>5, DropAt
  <2> QED BY <2>1
<1>8. body \o held = all
  BY <1>5, <1>6, <1>7, TakeDrop
<1>9. PICK hd \in Seq(Unit) : hd = IF s.begun THEN <<>> ELSE Header
  <2>1. Header \in Seq(Unit) /\ <<>> \in Seq(Unit)
    BY DEF Header, ID1, ID2, DEFLATED, Unit
  <2> QED BY <2>1
<1>10. PICK tl \in Seq(Unit) : tl = IF flush = "FINISH" THEN <<STREAM_END, TRAILER>> ELSE <<>>
  <2>1. <<STREAM_END, TRAILER>> \in Seq(Unit) /\ <<>> \in Seq(Unit)
    BY DEF STREAM_END, TRAILER, Unit
  <2> QED BY <2>1
<1>11. body \in Seq(Byte) /\ held \in Seq(Byte)
  BY <1>6, <1>7
<1>12. PICK more \in Seq(Unit) : more = (hd \o body) \o tl
  BY <1>11, ConcatAt
<1>13. deflated(s, flush, keep) =
         [s EXCEPT !.in = <<>>, !.held = held, !.begun = TRUE, !.finishing = flush = "FINISH",
                   !.pend = s.pend \o more]
  <2>1. deflated(s, flush, keep) =
         [s EXCEPT !.in = <<>>, !.held = held, !.begun = TRUE, !.finishing = flush = "FINISH",
                   !.pend = s.pend \o hd \o body \o tl]
    BY <1>2, <1>4, <1>6, <1>7, <1>9, <1>10, Zenon DEF deflated
  <2>2. PICK p \in Seq(Unit) : p = s.pend
    BY <1>1
  <2>3. Regrouped(p, hd, body, tl)
    BY Regroup
  <2> QED BY <1>12, <2>1, <2>2, <2>3 DEF Regrouped
<1>14. PICK fin \in BOOLEAN : fin = (flush = "FINISH")
  OBVIOUS
<1>15. PICK begun \in BOOLEAN : begun = s.begun
  BY <1>1
<1>16. /\ DecodesTo(pre \o more, ~fin, d \o body)
       /\ more = <<>> => begun /\ ~fin
  <2>1. DecodesTo(pre, begun, d) /\ Is(hd, HeadOf(begun))
        /\ Is(tl, TailOf(fin))
        /\ Is(more, (hd \o body) \o tl)
    BY <1>9, <1>10, <1>12, <1>14, <1>15 DEF Is, HeadOf, TailOf
  <2> QED BY <1>11, <2>1, DeflateDecodes
<1>17. PICK e \in Seq(Unit) : e = d \o body
  BY <1>11, ConcatAt
<1>18. e \o held = d \o all
  <2>1. Assoc(d, body, held)
    BY AssocIs
  <2> QED BY <1>8, <1>17, <2>1 DEF Assoc
<1>19. flush # "NO" => held = <<>>
  <2>1. flush # "NO" => Len(held) = 0
    BY <1>3, <1>5, <1>7
  <2> QED BY <2>1
<1> QED BY <1>2, <1>11, <1>13, <1>14, <1>15, <1>16, <1>17, <1>18, <1>19 DEF Deflating

LEMMA DivMod ==
  ASSUME NEW x \in Int, NEW Q \in Nat, Q > 0
  PROVE  /\ x % Q \in 0 .. Q - 1
         /\ x \div Q \in Int
         /\ x = Q * (x \div Q) + (x % Q)
OBVIOUS

(* How much of n units leaves a buffer with room for cap, and then for z and z again. *)
LEMMA FullIs ==
  ASSUME NEW n \in Nat, NEW cap \in Nat, cap > 0, NEW z \in Nat, z > 0,
         NEW full, full = IF n < cap THEN 0 ELSE cap + ((n - cap) \div z) * z,
         NEW room, room = IF full = 0 THEN cap - n ELSE z - (n - full)
  PROVE  full \in Nat /\ full <= n /\ room \in Nat
<1>1. CASE n < cap
  BY <1>1
<1>2. CASE n >= cap
  <2>1. PICK m \in Nat : m = n - cap
    BY <1>2
  <2>2. PICK q \in Int : q = m \div z
    BY <2>1, DivMod
  <2>3. PICK k \in 0 .. z - 1 : m = z * q + k
    BY <2>2, DivMod
  <2>4. q >= 0
    <3>1. ASSUME q < 0 PROVE FALSE
      <4>1. z * q <= z * (-1)
        BY <3>1
      <4> QED BY <2>3, <4>1
    <3> QED BY <3>1
  <2>5. PICK zq \in Nat : zq = z * q /\ zq = q * z
    BY <2>4
  <2>6. full = cap + zq /\ full # 0
    BY <1>2, <2>1, <2>2, <2>5
  <2>7. n = cap + zq + k
    BY <2>1, <2>3, <2>5
  <2>8. full \in Nat /\ full <= n
    BY <2>6, <2>7
  <2>9. room = z - k
    BY <2>6, <2>7
  <2> QED BY <2>8, <2>9
<1> QED BY <1>1, <1>2

Written(f, a, tk, o, so, p, m) == (f \o (a \o tk)) \o (o \o <<>>) = (f \o (so \o p)) \o m

(* What is written and what stays in the buffer are what was there and what is new. *)
LEMMA WrittenIs ==
  ASSUME NEW T, NEW f \in Seq(T), NEW a \in Seq(T), NEW tk \in Seq(T), NEW o \in Seq(T),
         NEW so \in Seq(T), NEW p \in Seq(T), NEW m \in Seq(T), NEW b \in Seq(T),
         Is(tk \o o, b \o (p \o m)), Is(so, a \o b)
  PROVE  Written(f, a, tk, o, so, p, m)
<1>1. PICK x \in Seq(T) : x = a \o tk
  BY ConcatAt
<1>2. PICK y \in Seq(T) : y = p \o m
  BY ConcatAt
<1>3. PICK u \in Seq(T) : u = a \o b
  BY ConcatAt
<1>4. PICK v \in Seq(T) : v = u \o p
  BY ConcatAt
<1>5. Assoc(f, x, o) /\ Assoc(a, tk, o) /\ Assoc(a, b, y) /\ Assoc(u, p, m) /\ Assoc(f, v, m) /\ Is(o \o <<>>, o)
  BY AssocIs, EmptyConcat DEF Is
<1>6. (f \o x) \o o = f \o (x \o o) /\ x \o o = a \o (tk \o o) /\ tk \o o = b \o y
  BY <1>1, <1>2, <1>5, Zenon DEF Assoc, Is
<1>7. a \o (b \o y) = u \o y /\ u \o y = v \o m /\ f \o (v \o m) = (f \o v) \o m
  BY <1>2, <1>3, <1>4, <1>5, Zenon DEF Assoc
<1>8. o \o <<>> = o /\ so = u
  BY <1>3, <1>5, Zenon DEF Is
<1>9. f \o (x \o o) = (f \o v) \o m
  BY <1>6, <1>7, Zenon
<1> QED BY <1>1, <1>4, <1>6, <1>8, <1>9, Zenon DEF Written

(* Changes of the gz_state. *)
DeflatedTo(d, s, held, p, fin) ==
  d = [s EXCEPT !.in = <<>>, !.held = held, !.begun = TRUE, !.finishing = fin, !.pend = p]
IsDeflated(d, s, held, p, fin) ==
  /\ WriterOK(d)
  /\ d.in = <<>> /\ d.held = held /\ d.begun = TRUE /\ d.finishing = fin /\ d.pend = p
  /\ d.out = s.out /\ d.room = s.room /\ d.err = s.err /\ d.size = s.size

LEMMA DeflatedWriter ==
  ASSUME NEW s, WriterOK(s), NEW held \in Seq(Byte), NEW p \in Seq(Unit), NEW fin \in BOOLEAN, NEW d,
         DeflatedTo(d, s, held, p, fin)
  PROVE  IsDeflated(d, s, held, p, fin)
BY DEF WriterOK, Fields, DeflatedTo, IsDeflated

LEMMA EmptiedWriter ==
  ASSUME NEW s, WriterOK(s), Want \in Nat, Want > 0, s.size = Want, NEW t, Is(t, Emptied(s))
  PROVE  /\ WriterOK(t) /\ t.room > 0 /\ t.out = <<>> /\ t.pend = s.pend /\ t.held = s.held
         /\ t.in = s.in /\ t.begun = s.begun /\ t.finishing = s.finishing /\ t.err = s.err /\ t.size = Want
BY SMTT(60) DEF WriterOK, Fields, Emptied, Is

SentOn(t, d, o, room, flush) ==
  t = [d EXCEPT !.pend = <<>>, !.out = o, !.room = room, !.begun = @ /\ flush # "FINISH", !.finishing = FALSE]
IsSentOn(t, d, o, room, flush) ==
  /\ WriterOK(t)
  /\ t.in = d.in /\ t.held = d.held /\ t.begun = (d.begun /\ flush # "FINISH") /\ t.finishing = FALSE
  /\ t.pend = <<>> /\ t.out = o /\ t.room = room /\ t.err = d.err /\ t.size = d.size

LEMMA ThroughWriter ==
  ASSUME NEW d, WriterOK(d), NEW o \in Seq(Unit), NEW room \in Nat, NEW flush, NEW t,
         SentOn(t, d, o, room, flush)
  PROVE  IsSentOn(t, d, o, room, flush)
BY DEF WriterOK, Fields, SentOn, IsSentOn

(* gz_comp() with a device that works. *)
LEMMA ThroughHolds ==
  ASSUME NEW s, NEW f, NEW gv, Holds(s, f, gv), Is(s.size, Want), NEW flush \in Flushes, NEW keep \in Nat,
         KeepOK(s, flush, keep), NEW r, Is(r, Through(s, flush, keep))
  PROVE  /\ Holds(r.s, f \o r.to, gv) /\ r.s.in = <<>>
         /\ flush # "NO" => Empty(r.s)
         /\ flush = "FINISH" => ~r.s.begun
<1> DEFINE first == IF WritesFirst(s, flush) \/ s.room = 0 THEN Emptied(s) ELSE s
           d == deflated(first, flush, keep)
           all == d.out \o d.pend
           cap == Len(d.out) + d.room
           full == IF Len(all) < cap THEN 0 ELSE cap + ((Len(all) - cap) \div s.size) * s.size
           room == IF full = 0 THEN cap - Len(all) ELSE s.size - (Len(all) - full)
           o == Kept(flush, all, full)
<1>0. r = [to |-> SubSeq(s.out, 1, IF WritesFirst(s, flush) THEN Len(s.out) ELSE 0)
                  \o Take(all, Len(all) - Len(o)),
           s  |-> [d EXCEPT !.pend = <<>>, !.out = o, !.room = room,
                            !.begun = @ /\ flush # "FINISH", !.finishing = FALSE]]
  BY DEF Through, Is
<1> HIDE DEF first, d, all, cap, full, room, o
<1>1. /\ WriterOK(s) /\ ~s.finishing /\ s.err = "OK" /\ f \in Seq(Unit)
      /\ s.out \in Seq(Unit) /\ s.pend \in Seq(Unit) /\ s.held \in Seq(Byte) /\ s.in \in Seq(Byte)
      /\ s.room \in Nat /\ s.begun \in BOOLEAN
  BY DEF Holds, WriterOK
<1>2. PICK d0 \in Seq(Unit) : DecodesTo(f \o (s.out \o s.pend), s.begun, d0) /\ Is(d0 \o (s.held \o s.in), gv)
  BY DEF Holds
<1>3. Want \in Nat /\ Want > 0
  BY GzWriteAssumption
<1>4. PICK wf \in BOOLEAN : wf = WritesFirst(s, flush)
  BY DEF WritesFirst
<1>5. /\ WriterOK(first)
      /\ first.out = (IF wf \/ s.room = 0 THEN <<>> ELSE s.out)
      /\ first.room > 0 /\ first.pend = s.pend /\ first.held = s.held /\ first.in = s.in
      /\ first.begun = s.begun /\ ~first.finishing /\ first.err = "OK"
  <2>1. CASE wf \/ s.room = 0
    <3>1. PICK t : t = Emptied(s)
      OBVIOUS
    <3>2. /\ WriterOK(t) /\ t.room > 0 /\ t.out = <<>> /\ t.pend = s.pend /\ t.held = s.held
          /\ t.in = s.in /\ t.begun = s.begun /\ t.finishing = s.finishing /\ t.err = s.err
      <4>1. Is(t, Emptied(s)) /\ s.size = Want
        BY <3>1 DEF Is
      <4> QED BY <1>1, <1>3, <4>1, EmptiedWriter
    <3>3. first = t
      BY <1>4, <2>1, <3>1 DEF first
    <3> QED BY <1>1, <2>1, <3>2, <3>3
  <2>2. CASE ~(wf \/ s.room = 0)
    <3>1. first = s
      BY <1>4, <2>2 DEF first
    <3> QED BY <1>1, <2>2, <3>1
  <2> QED BY <2>1, <2>2
<1>6. PICK b \in Seq(Unit) : b = first.out
  BY <1>5 DEF WriterOK
<1>7. PICK so \in Seq(Unit) : so = s.out
  BY <1>1
<1>8. PICK p \in Seq(Unit) : p = s.pend
  BY <1>1
<1>9. PICK a \in Seq(Unit) : a = SubSeq(so, 1, IF wf THEN Len(so) ELSE 0)
  <2>1. SubSeq(so, 1, Len(so)) \in Seq(Unit) /\ SubSeq(so, 1, 0) \in Seq(Unit)
    OBVIOUS
  <2> QED BY <2>1
<1>10. Is(so, a \o b)
  <2>1. CASE wf
    <3>1. a = so /\ b = <<>>
      BY <1>5, <1>6, <1>9, <2>1
    <3> QED BY <3>1 DEF Is
  <2>2. CASE ~wf
    <3>1. a = <<>>
      BY <1>9, <2>2
    <3>2. s.room = 0 => s.out = <<>>
      BY <1>4, <2>2 DEF WritesFirst
    <3>3. b = so
      BY <1>5, <1>6, <1>7, <2>2, <3>2
    <3> QED BY <3>1, <3>3 DEF Is
  <2> QED BY <2>1, <2>2
<1>11. PICK pre \in Seq(Unit) : pre = f \o (so \o p)
  BY <1>2, <1>7, <1>8 DEF DecodesTo
<1>12. PICK more \in Seq(Unit), held \in Seq(Byte), e \in Seq(Unit) :
           Deflating(first, flush, keep, pre, d0, more, held, e)
  <2>1. DecodesTo(pre, first.begun, d0) /\ KeepOK(first, flush, keep)
    BY <1>2, <1>5, <1>7, <1>8, <1>11 DEF KeepOK
  <2>2. WriterOK(first) /\ ~first.finishing
    BY <1>5
  <2> QED BY <2>1, <2>2, DeflatedIs
<1>13. d = deflated(first, flush, keep)
  BY DEF d
<1>14. PICK pm \in Seq(Unit) : pm = p \o more
  BY ConcatAt
<1>16. PICK fin \in BOOLEAN : fin = (flush = "FINISH")
  OBVIOUS
<1>17. /\ WriterOK(d)
       /\ d.in = <<>> /\ d.held = held /\ d.begun = TRUE /\ d.finishing = fin /\ d.pend = pm
       /\ d.out = b /\ d.room = first.room /\ d.err = "OK"
  <2>1. DeflatedTo(d, first, held, pm, fin)
    BY <1>5, <1>8, <1>12, <1>13, <1>14, <1>16 DEF Deflating, DeflatedTo
  <2>2. WriterOK(first)
    BY <1>5
  <2>3. IsDeflated(d, first, held, pm, fin)
    BY <2>1, <2>2, DeflatedWriter
  <2> QED BY <1>5, <1>6, <2>3 DEF IsDeflated
<1>15. all \in Seq(Unit) /\ all = b \o pm
  <2>1. b \o pm \in Seq(Unit)
    BY ConcatAt
  <2> QED BY <1>17, <2>1 DEF all
<1>18. PICK n \in Nat : n = Len(all)
  BY <1>15
<1>19. cap \in Nat /\ cap > 0
  <2>1. Len(b) \in Nat /\ first.room \in Nat /\ first.room > 0
    BY <1>5, SMTT(60) DEF WriterOK
  <2>2. Len(b) + first.room \in Nat /\ Len(b) + first.room > 0
    BY <2>1, SMTT(60)
  <2> QED BY <1>17, <2>2 DEF cap
<1>20. full = IF n < cap THEN 0 ELSE cap + ((n - cap) \div Want) * Want
  BY <1>18 DEF full, Is
<1>21. room = IF full = 0 THEN cap - n ELSE Want - (n - full)
  BY <1>18 DEF room, Is
<1>22. full \in Nat /\ full <= n /\ room \in Nat
  BY <1>3, <1>19, <1>20, <1>21, FullIs
<1>23. /\ o \in Seq(Unit)
       /\ \E tk \in Seq(Unit) : Is(tk, Take(all, n - Len(o))) /\ Is(tk \o o, all)
       /\ flush # "NO" => o = <<>>
  <2>1. CASE flush = "NO"
    <3>1. Drop(all, full) \in Seq(Unit) /\ Len(Drop(all, full)) = n - full /\ n - (n - full) = full
      <4>1. full <= Len(all)
        BY <1>18, <1>22
      <4>2. Drop(all, full) \in Seq(Unit) /\ Len(Drop(all, full)) = Len(all) - full
        BY <1>15, <1>22, <4>1, DropAt
      <4> QED BY <1>18, <1>22, <4>2
    <3>2. Take(all, full) \in Seq(Unit) /\ Take(all, full) \o Drop(all, full) = all
      BY <1>15, <1>18, <1>22, TakeAt, TakeDrop
    <3>3. o = Drop(all, full)
      BY <2>1 DEF Kept, o
    <3> QED BY <2>1, <3>1, <3>2, <3>3 DEF Is
  <2>2. CASE flush # "NO"
    <3>1. Take(all, n) = all /\ n - 0 = n /\ Len(<<>>) = 0 /\ <<>> \in Seq(Unit)
      <4>1. n >= Len(all) /\ all \in Seq(Unit)
        BY <1>15, <1>18
      <4> QED BY <4>1, TakeAll
    <3>2. all \o <<>> = all
      BY <1>15, EmptyConcat
    <3>3. o = <<>>
      BY <2>2 DEF Kept, o
    <3> QED BY <1>15, <2>2, <3>1, <3>2, <3>3 DEF Is
  <2> QED BY <2>1, <2>2
<1>36. PICK tk \in Seq(Unit) : Is(tk, Take(all, n - Len(o))) /\ Is(tk \o o, all)
  BY <1>23
<1>24. r = [to |-> a \o tk,
            s  |-> [d EXCEPT !.pend = <<>>, !.out = o, !.room = room,
                             !.begun = @ /\ flush # "FINISH", !.finishing = FALSE]]
  <2>5. a = SubSeq(s.out, 1, IF WritesFirst(s, flush) THEN Len(s.out) ELSE 0)
    BY <1>4, <1>7, <1>9
  <2>6. tk = Take(all, Len(all) - Len(o))
    BY <1>18, <1>36 DEF Is
  <2> QED BY <1>0, <2>5, <2>6
<1>25. PICK t : t = r.s
  OBVIOUS
<1>26. /\ WriterOK(t) /\ ~t.finishing /\ t.err = "OK" /\ t.begun = ~fin
       /\ t.held = held /\ t.in = <<>> /\ t.out = o /\ t.pend = <<>>
  <2>1. SentOn(t, d, o, room, flush)
    BY <1>24, <1>25 DEF SentOn
  <2>2. WriterOK(d) /\ room \in Nat /\ o \in Seq(Unit)
    BY <1>17, <1>22, <1>23
  <2>3. IsSentOn(t, d, o, room, flush)
    BY <2>1, <2>2, ThroughWriter
  <2> QED BY <1>16, <1>17, <2>3 DEF IsSentOn
<1>27. Written(f, a, tk, o, so, p, more)
  <2>1. Is(tk \o o, b \o (p \o more))
    BY <1>14, <1>15, <1>36 DEF Is
  <2> QED BY <1>1, <1>10, <1>23, <2>1, WrittenIs
<1>28. PICK to \in Seq(Unit) : to = r.to /\ to = a \o tk
  BY <1>24, ConcatAt
<1>29. (f \o to) \o (t.out \o t.pend) = pre \o more
  BY <1>11, <1>26, <1>27, <1>28, Zenon DEF Written
<1>30. DecodesTo((f \o to) \o (t.out \o t.pend), t.begun, e)
  BY <1>12, <1>16, <1>26, <1>29 DEF Deflating
<1>31. e \o (t.held \o t.in) = d0 \o (s.held \o s.in)
  <2>1. held \o <<>> = held
    OBVIOUS
  <2> QED BY <1>5, <1>12, <1>26, <2>1 DEF Deflating
<1>32. f \o to \in Seq(Unit)
  BY <1>1, ConcatAt
<1>33. t.begun \/ t.held = <<>>
  BY <1>12, <1>16, <1>26 DEF Deflating
<1>34. Holds(t, f \o to, gv)
  <2>1. Is(e \o (t.held \o t.in), gv)
    BY <1>2, <1>31
  <2> QED BY <1>26, <1>30, <1>32, <1>33, <2>1 DEF Holds
<1>35. /\ flush # "NO" => Empty(t)
       /\ flush = "FINISH" => ~t.begun
  BY <1>12, <1>16, <1>23, <1>26 DEF Empty, Deflating
<1> QED BY <1>25, <1>26, <1>28, <1>34, <1>35, SMTT(60)

KeptAll(t, d, o, room) == t = [d EXCEPT !.out = o, !.pend = <<>>, !.room = room]
IsKeptAll(t, d, o, room) ==
  /\ WriterOK(t)
  /\ t.in = d.in /\ t.held = d.held /\ t.begun = d.begun /\ t.finishing = d.finishing
  /\ t.pend = <<>> /\ t.out = o /\ t.err = d.err /\ t.size = d.size

LEMMA KeptWriter ==
  ASSUME NEW d, WriterOK(d), NEW o \in Seq(Unit), NEW room \in Nat, NEW t, KeptAll(t, d, o, room)
  PROVE  IsKeptAll(t, d, o, room)
BY DEF WriterOK, Fields, KeptAll, IsKeptAll

(* gz_comp() with a device that fails, if it need not write. *)
LEMMA StoppedHolds ==
  ASSUME NEW s, NEW f, NEW gv, Holds(s, f, gv), NEW flush \in Flushes, NEW keep \in Nat,
         KeepOK(s, flush, keep), NEW t, Is(t, Stopped(s, flush, keep)), t.err = "OK"
  PROVE  /\ Holds(t, f, gv) /\ t.in = <<>>
         /\ flush # "NO" => Empty(t)
         /\ flush = "FINISH" => ~t.begun
<1> DEFINE d == deflated(s, flush, keep)
           all == d.out \o d.pend
           cap == Len(d.out) + d.room
           q == cap - Lesser(cap, Len(all))
<1>0. t = IF WritesFirst(s, flush) THEN [s EXCEPT !.err = "ERRNO"]
          ELSE IF Len(all) < cap /\ (flush = "NO" \/ all = <<>>)
          THEN [d EXCEPT !.out = all, !.pend = <<>>, !.room = cap - Len(all)]
          ELSE [d EXCEPT !.out = Take(all, cap), !.pend = Drop(all, Lesser(cap, Len(all))),
                         !.room = cap - Lesser(cap, Len(all)), !.err = "ERRNO"]
  BY DEF Stopped, Is
<1> HIDE DEF d, all, cap
<1>1. /\ WriterOK(s) /\ ~s.finishing /\ s.err = "OK" /\ f \in Seq(Unit) /\ DOMAIN s = Fields
      /\ s.out \in Seq(Unit) /\ s.pend \in Seq(Unit) /\ s.held \in Seq(Byte) /\ s.in \in Seq(Byte)
      /\ s.room \in Nat /\ s.begun \in BOOLEAN
  BY DEF Holds, WriterOK
<1>2. PICK d0 \in Seq(Unit) : DecodesTo(f \o (s.out \o s.pend), s.begun, d0) /\ Is(d0 \o (s.held \o s.in), gv)
  BY DEF Holds
<1>3. PICK so \in Seq(Unit) : so = s.out
  BY <1>1
<1>4. PICK p \in Seq(Unit) : p = s.pend
  BY <1>1
<1>5. PICK pre \in Seq(Unit) : pre = f \o (so \o p)
  BY <1>2, <1>3, <1>4 DEF DecodesTo
<1>6. PICK more \in Seq(Unit), held \in Seq(Byte), e \in Seq(Unit) :
           Deflating(s, flush, keep, pre, d0, more, held, e)
  <2>1. DecodesTo(pre, s.begun, d0)
    BY <1>2, <1>3, <1>4, <1>5
  <2> QED BY <1>1, <2>1, DeflatedIs
<1>7. PICK pm \in Seq(Unit) : pm = p \o more
  BY ConcatAt
<1>8. PICK fin \in BOOLEAN : fin = (flush = "FINISH")
  OBVIOUS
<1>9. IsDeflated(d, s, held, pm, fin)
  <2>1. DeflatedTo(d, s, held, pm, fin)
    BY <1>4, <1>6, <1>7, <1>8 DEF Deflating, DeflatedTo, d
  <2> QED BY <1>1, <2>1, DeflatedWriter
<1>10. all \in Seq(Unit) /\ all = so \o pm /\ Len(all) = Len(so) + Len(pm)
  <2>1. so \o pm \in Seq(Unit) /\ Len(so \o pm) = Len(so) + Len(pm)
    BY ConcatAt
  <2> QED BY <1>3, <1>9, <2>1 DEF all, IsDeflated
<1>11. ~WritesFirst(s, flush)
  <2>1. ASSUME WritesFirst(s, flush) PROVE FALSE
    <3>1. t = [s EXCEPT !.err = "ERRNO"]
      BY <1>0, <2>1
    <3>2. t.err = "ERRNO"
      BY <1>1, <3>1 DEF Fields
    <3> QED BY <3>2
  <2> QED BY <2>1
<1>12. Len(all) < cap /\ (flush = "NO" \/ all = <<>>)
  <2>1. ASSUME ~(Len(all) < cap /\ (flush = "NO" \/ all = <<>>)) PROVE FALSE
    <3>1. t = [d EXCEPT !.out = Take(all, cap), !.pend = Drop(all, Lesser(cap, Len(all))),
                         !.room = cap - Lesser(cap, Len(all)), !.err = "ERRNO"]
      BY <1>0, <1>11, <2>1
    <3>2. DOMAIN d = Fields
      BY <1>9 DEF IsDeflated, WriterOK
    <3>3. t.err = "ERRNO"
      BY <3>1, <3>2 DEF Fields
    <3> QED BY <3>3
  <2> QED BY <2>1
<1>13. PICK room \in Nat : room = cap - Len(all)
  <2>1. d.out \in Seq(Unit) /\ d.room \in Nat
    BY <1>9 DEF IsDeflated, WriterOK
  <2>2. cap \in Nat
    BY <2>1, SMTT(60) DEF cap
  <2>3. Len(all) \in Nat
    BY <1>10
  <2>4. Len(all) < cap
    BY <1>12
  <2>5. cap - Len(all) \in Nat
    BY <2>2, <2>3, <2>4
  <2> QED BY <2>5
<1>14. IsKeptAll(t, d, all, room)
  <2>1. KeptAll(t, d, all, room)
    BY <1>0, <1>11, <1>12, <1>13 DEF KeptAll
  <2>2. WriterOK(d) /\ all \in Seq(Unit)
    BY <1>9, <1>10 DEF IsDeflated
  <2> QED BY <2>1, <2>2, KeptWriter
<1>15. flush = "NO" \/ more = <<>>
  <2>1. all = <<>> => Len(more) = 0
    <3>1. Len(pm) = Len(p) + Len(more) /\ Len(p) \in Nat /\ Len(more) \in Nat /\ Len(so) \in Nat
      BY <1>7
    <3>2. all = <<>> => Len(all) = 0
      OBVIOUS
    <3> QED BY <1>10, <3>1, <3>2
  <2> QED BY <1>12, <2>1
<1>16. /\ WriterOK(t) /\ t.in = <<>> /\ t.held = held /\ t.begun = TRUE /\ t.finishing = FALSE
       /\ t.pend = <<>> /\ t.out = all /\ flush # "FINISH"
  <2>1. flush # "FINISH"
    BY <1>6, <1>15 DEF Deflating
  <2>2. fin = FALSE
    BY <1>8, <2>1
  <2> QED BY <1>9, <1>14, <2>1, <2>2 DEF IsKeptAll, IsDeflated
<1>17. Regroup2(f, so, p, more)
  BY <1>1, Regroup2Is
<1>18. f \o (t.out \o t.pend) = pre \o more
  <2>1. all \o <<>> = all
    BY <1>10, EmptyConcat
  <2> QED BY <1>5, <1>7, <1>10, <1>16, <1>17, <2>1 DEF Regroup2
<1>19. DecodesTo(f \o (t.out \o t.pend), t.begun, e)
  BY <1>6, <1>16, <1>18 DEF Deflating
<1>20. e \o (t.held \o t.in) = d0 \o (s.held \o s.in)
  <2>1. held \o <<>> = held
    OBVIOUS
  <2> QED BY <1>6, <1>16, <2>1 DEF Deflating
<1>21. Holds(t, f, gv)
  <2>1. Is(e \o (t.held \o t.in), gv)
    BY <1>2, <1>20
  <2> QED BY <1>1, <1>16, <1>19, <2>1 DEF Holds
<1>22. flush # "NO" => Empty(t)
  BY <1>6, <1>12, <1>16 DEF Empty, Deflating
<1> QED BY <1>16, <1>21, <1>22

(* A file that decodes to a part of what was given. *)
FilePart(f, gv) == f \in Seq(Unit) /\ Begins(Decoded(f).data, gv)

LEMMA PartOf ==
  ASSUME NEW f \in Seq(Unit), NEW x \in Seq(Unit), NEW y \in Seq(Unit), Begins(x, y), NEW begun,
         NEW d \in Seq(Unit), DecodesTo(f \o y, begun, d), NEW h \in Seq(Unit), NEW gv, Is(d \o h, gv)
  PROVE  FilePart(f \o x, gv)
<1>1. f \o x \in Seq(Unit) /\ f \o y \in Seq(Unit) /\ Begins(f \o x, f \o y)
  BY BeginsJoin
<1>2. Decoded(f \o y).data = d
  BY DEF DecodesTo
<1>3. Decoded(f \o x).data \in Seq(Unit) /\ Begins(Decoded(f \o x).data, d)
  BY <1>1, <1>2, PartData
<1>4. PICK g \in Seq(Unit) : g = d \o h
  BY ConcatAt
<1>5. Begins(d, g)
  BY <1>4, BeginsConcat
<1>6. Begins(Decoded(f \o x).data, g)
  BY <1>3, <1>5, BeginsTrans
<1> QED BY <1>1, <1>4, <1>6 DEF FilePart, Is

(* The file of a writer that has not failed. *)
LEMMA HoldsPart ==
  ASSUME NEW s, NEW f, NEW gv, Holds(s, f, gv), NEW n \in Nat
  PROVE  FilePart(f, gv) /\ FilePart(f \o Take(s.out, n), gv)
<1>1. PICK d \in Seq(Unit) : DecodesTo(f \o (s.out \o s.pend), s.begun, d) /\ Is(d \o (s.held \o s.in), gv)
  BY DEF Holds
<1>2. f \in Seq(Unit) /\ s.out \in Seq(Unit) /\ s.pend \in Seq(Unit) /\ s.held \in Seq(Unit) /\ s.in \in Seq(Unit)
  BY UnitsBytes DEF Holds, WriterOK
<1>3. PICK h \in Seq(Unit) : h = s.held \o s.in
  BY <1>2, ConcatAt
<1>4. PICK o \in Seq(Unit) : o = s.out
  BY <1>2
<1>5. PICK p \in Seq(Unit) : p = s.pend
  BY <1>2
<1>6. PICK y \in Seq(Unit) : y = o \o p
  BY ConcatAt
<1>7. DecodesTo(f \o y, s.begun, d) /\ Is(d \o h, gv)
  BY <1>1, <1>3, <1>4, <1>5, <1>6
<1>8. <<>> \in Seq(Unit) /\ Begins(<<>>, y) /\ f \o <<>> = f
  <2>1. Len(<<>>) = 0 /\ Len(y) \in Nat /\ <<>> \in Seq(Unit)
    OBVIOUS
  <2> QED BY <1>2, <2>1, EmptyConcat DEF Begins
<1>9. FilePart(f \o <<>>, gv)
  BY <1>2, <1>7, <1>8, PartOf
<1>10. PICK x \in Seq(Unit) : x = Take(o, n) /\ Begins(x, o)
  BY BeginsTake
<1>11. Begins(o, y)
  BY <1>6, BeginsConcat
<1>12. Begins(x, y)
  BY <1>10, <1>11, BeginsTrans
<1>13. FilePart(f \o x, gv)
  BY <1>2, <1>7, <1>12, PartOf
<1> QED BY <1>4, <1>8, <1>9, <1>10, <1>13

(* gz_comp() with a device that fails: what has been written of the output buffer. *)
LEMMA StoppedPart ==
  ASSUME NEW s, NEW f, NEW gv, Holds(s, f, gv), NEW flush \in Flushes, NEW keep \in Nat,
         KeepOK(s, flush, keep), NEW t, Is(t, Stopped(s, flush, keep)), t.err # "OK", NEW n \in Nat
  PROVE  FilePart(f \o Take(t.out, n), gv)
<1> DEFINE d == deflated(s, flush, keep)
           all == d.out \o d.pend
           cap == Len(d.out) + d.room
<1>0. t = IF WritesFirst(s, flush) THEN [s EXCEPT !.err = "ERRNO"]
          ELSE IF Len(all) < cap /\ (flush = "NO" \/ all = <<>>)
          THEN [d EXCEPT !.out = all, !.pend = <<>>, !.room = cap - Len(all)]
          ELSE [d EXCEPT !.out = Take(all, cap), !.pend = Drop(all, Lesser(cap, Len(all))),
                         !.room = cap - Lesser(cap, Len(all)), !.err = "ERRNO"]
  BY DEF Stopped, Is
<1> HIDE DEF d, all, cap
<1>1. /\ WriterOK(s) /\ ~s.finishing /\ s.err = "OK" /\ f \in Seq(Unit) /\ DOMAIN s = Fields
      /\ s.out \in Seq(Unit) /\ s.pend \in Seq(Unit)
  BY DEF Holds, WriterOK
<1>2. CASE WritesFirst(s, flush)
  <2>1. t = [s EXCEPT !.err = "ERRNO"]
    BY <1>0, <1>2
  <2>2. t.out = s.out
    BY <1>1, <2>1 DEF Fields
  <2> QED BY <2>2, HoldsPart
<1>3. CASE ~WritesFirst(s, flush)
  <2>1. PICK d0 \in Seq(Unit) : DecodesTo(f \o (s.out \o s.pend), s.begun, d0) /\ Is(d0 \o (s.held \o s.in), gv)
    BY DEF Holds
  <2>2. PICK so \in Seq(Unit) : so = s.out
    BY <1>1
  <2>3. PICK p \in Seq(Unit) : p = s.pend
    BY <1>1
  <2>4. PICK pre \in Seq(Unit) : pre = f \o (so \o p)
    BY <2>1, <2>2, <2>3 DEF DecodesTo
  <2>5. PICK more \in Seq(Unit), held \in Seq(Byte), e \in Seq(Unit) :
             Deflating(s, flush, keep, pre, d0, more, held, e)
    <3>1. DecodesTo(pre, s.begun, d0)
      BY <2>1, <2>2, <2>3, <2>4
    <3> QED BY <1>1, <3>1, DeflatedIs
  <2>6. PICK pm \in Seq(Unit) : pm = p \o more
    BY ConcatAt
  <2>7. PICK fin \in BOOLEAN : fin = (flush = "FINISH")
    OBVIOUS
  <2>8. IsDeflated(d, s, held, pm, fin)
    <3>1. DeflatedTo(d, s, held, pm, fin)
      BY <2>3, <2>5, <2>6, <2>7 DEF Deflating, DeflatedTo, d
    <3> QED BY <1>1, <3>1, DeflatedWriter
  <2>9. DOMAIN d = Fields /\ d.err = "OK" /\ d.room \in Nat /\ d.out = so
    BY <1>1, <2>2, <2>8 DEF IsDeflated, WriterOK
  <2>10. all \in Seq(Unit) /\ all = so \o pm
    <3>1. so \o pm \in Seq(Unit)
      BY ConcatAt
    <3> QED BY <2>8, <2>9, <3>1 DEF all, IsDeflated
  <2>11. PICK c \in Nat : c = cap
    <3>1. Len(so) \in Nat
      OBVIOUS
    <3> QED BY <2>9, <3>1 DEF cap
  <2>12. t.out = Take(all, c)
    <3>1. CASE Len(all) < cap /\ (flush = "NO" \/ all = <<>>)
      <4>1. t = [d EXCEPT !.out = all, !.pend = <<>>, !.room = cap - Len(all)]
        BY <1>0, <1>3, <3>1
      <4>2. t.err = "OK"
        BY <2>9, <4>1 DEF Fields
      <4> QED BY <4>2
    <3>2. CASE ~(Len(all) < cap /\ (flush = "NO" \/ all = <<>>))
      <4>1. t = [d EXCEPT !.out = Take(all, cap), !.pend = Drop(all, Lesser(cap, Len(all))),
                           !.room = cap - Lesser(cap, Len(all)), !.err = "ERRNO"]
        BY <1>0, <1>3, <3>2
      <4>2. t.out = Take(all, cap)
        BY <2>9, <4>1 DEF Fields
      <4> QED BY <2>11, <4>2
    <3> QED BY <3>1, <3>2
  <2>13. PICK o \in Seq(Unit) : o = t.out /\ Begins(o, all)
    BY <2>10, <2>12, BeginsTake
  <2>14. PICK x \in Seq(Unit) : x = Take(o, n) /\ Begins(x, o)
    BY BeginsTake
  <2>15. Begins(x, all)
    BY <2>10, <2>13, <2>14, BeginsTrans
  <2>16. f \o all = pre \o more
    <3>1. Regroup2(f, so, p, more)
      BY <1>1, Regroup2Is
    <3> QED BY <2>4, <2>6, <2>10, <3>1 DEF Regroup2
  <2>17. DecodesTo(f \o all, flush # "FINISH", e)
    BY <2>5, <2>16 DEF Deflating
  <2>18. PICK h \in Seq(Unit) : h = held
    BY UnitsBytes
  <2>19. Is(e \o h, gv)
    BY <2>1, <2>5, <2>18 DEF Deflating, Is
  <2>20. FilePart(f \o x, gv)
    BY <1>1, <2>10, <2>15, <2>17, <2>19, PartOf
  <2> QED BY <2>13, <2>14, <2>20
<1> QED BY <1>2, <1>3

InitedFrom(t, s) ==
  /\ t.size = Want /\ t.in = s.in /\ t.held = s.held /\ t.pend = s.pend /\ t.out = s.out
  /\ t.begun = s.begun /\ t.finishing = s.finishing /\ t.err = s.err

LEMMA InitWriter ==
  ASSUME NEW s, WriterOK(s)
  PROVE  WriterOK(gz_init(s)) /\ InitedFrom(gz_init(s), s)
<1>1. Want \in Nat /\ Want > 0 /\ s.size \in {0, Want} /\ DOMAIN s = Fields
  BY GzWriteAssumption DEF WriterOK
<1>2. CASE s.size = 0
  <2>1. gz_init(s) = [s EXCEPT !.size = Want, !.room = Want]
    BY <1>2 DEF gz_init
  <2> QED BY <1>1, <1>2, <2>1 DEF WriterOK, Fields, InitedFrom
<1>3. CASE s.size = Want
  <2>1. gz_init(s) = s
    BY <1>1, <1>3 DEF gz_init
  <2> QED BY <1>3, <2>1 DEF InitedFrom
<1> QED BY <1>1, <1>2, <1>3

LEMMA InitHolds ==
  ASSUME NEW s, NEW f, NEW gv, Holds(s, f, gv)
  PROVE  Holds(gz_init(s), f, gv) /\ gz_init(s).size = Want
<1>1. PICK t : t = gz_init(s)
  OBVIOUS
<1>2. WriterOK(t) /\ InitedFrom(t, s)
  BY <1>1, InitWriter DEF Holds
<1> QED BY <1>1, <1>2 DEF Holds, InitedFrom

(* gz_comp(): if it does not fail, what was given is still there, and nothing waits after a flush. *)
LEMMA CompHolds ==
  ASSUME NEW s0, NEW gv, Holds(s0, file, gv), NEW flush \in Flushes,
         NEW r \in gz_comp(s0, flush), r.s.err = "OK"
  PROVE  /\ Holds(r.s, file \o r.to, gv) /\ r.s.in = <<>>
         /\ flush # "NO" => Empty(r.s)
         /\ flush = "FINISH" => ~r.s.begun
<1> DEFINE s == gz_init(s0)
           keeps == {0, IF flush = "NO" THEN Len(s.held) + Len(s.in) ELSE 0}
           Parts(t) == {[to |-> Take(t.out, n), s |-> t] : n \in 0 .. (Len(t.out) - 1)}
<1>1. Holds(s, file, gv) /\ s.size = Want
  BY InitHolds
<1>2. ~s.finishing /\ s.held \in Seq(Byte) /\ s.in \in Seq(Byte) /\ file \in Seq(Unit)
  BY <1>1 DEF Holds, WriterOK
<1>3. \/ ~failing /\ \E k \in keeps : r = Through(s, flush, k)
      \/ \E k \in keeps : r \in IF Stopped(s, flush, k).err = "OK" THEN {[to |-> <<>>, s |-> Stopped(s, flush, k)]}
                                ELSE Parts(Stopped(s, flush, k))
  BY <1>2 DEF gz_comp
<1> HIDE DEF s, Parts
<1>4. ASSUME NEW k \in keeps PROVE k \in Nat /\ KeepOK(s, flush, k)
  <2>1. PICK a \in Seq(Byte) : a = s.held
    BY <1>2
  <2>2. PICK b \in Seq(Byte) : b = s.in
    BY <1>2
  <2>3. PICK n \in Nat : n = Len(a) + Len(b)
    OBVIOUS
  <2>4. k = 0 \/ (flush = "NO" /\ k = n)
    BY <2>1, <2>2, <2>3
  <2>5. n = Len(s.held) + Len(s.in)
    BY <2>1, <2>2, <2>3
  <2>6. k \in Nat
    BY <2>4
  <2>7. KeepOK(s, flush, k)
    BY <2>4, <2>5, Zenon DEF KeepOK
  <2> QED BY <2>6, <2>7
<1> HIDE DEF keeps
<1>5. ASSUME NEW k \in keeps, r = Through(s, flush, k)
      PROVE  /\ Holds(r.s, file \o r.to, gv) /\ r.s.in = <<>>
             /\ flush # "NO" => Empty(r.s)
             /\ flush = "FINISH" => ~r.s.begun
  <2>1. k \in Nat /\ KeepOK(s, flush, k)
    BY <1>4
  <2>2. Is(r, Through(s, flush, k)) /\ Is(s.size, Want)
    BY <1>1, <1>5 DEF Is
  <2> QED BY <1>1, <2>1, <2>2, ThroughHolds
<1>6. ASSUME NEW k \in keeps,
             r \in IF Stopped(s, flush, k).err = "OK" THEN {[to |-> <<>>, s |-> Stopped(s, flush, k)]}
                   ELSE Parts(Stopped(s, flush, k))
      PROVE  /\ Holds(r.s, file \o r.to, gv) /\ r.s.in = <<>>
             /\ flush # "NO" => Empty(r.s)
             /\ flush = "FINISH" => ~r.s.begun
  <2>1. PICK t : t = Stopped(s, flush, k)
    OBVIOUS
  <2>2. CASE t.err = "OK"
    <3>1. r.to = <<>> /\ r.s = t
      BY <1>6, <2>1, <2>2
    <3>2. k \in Nat /\ KeepOK(s, flush, k) /\ Is(t, Stopped(s, flush, k))
      BY <1>4, <2>1 DEF Is
    <3>3. /\ Holds(t, file, gv) /\ t.in = <<>>
          /\ flush # "NO" => Empty(t)
          /\ flush = "FINISH" => ~t.begun
      BY <1>1, <2>2, <3>2, StoppedHolds
    <3>4. file \o <<>> = file
      BY <1>2, EmptyConcat
    <3> QED BY <3>1, <3>3, <3>4
  <2>3. CASE t.err # "OK"
    <3>1. r \in Parts(t)
      BY <1>6, <2>1, <2>3
    <3>2. r.s = t
      BY <3>1 DEF Parts
    <3> QED BY <2>3, <3>2
  <2> QED BY <2>2, <2>3
<1> QED BY <1>3, <1>5, <1>6

(* gz_comp(): if it fails, the file is still a part of what was given. *)
LEMMA CompPart ==
  ASSUME NEW s0, NEW gv, Holds(s0, file, gv), NEW flush \in Flushes,
         NEW r \in gz_comp(s0, flush), r.s.err # "OK"
  PROVE  FilePart(file \o r.to, gv)
<1> DEFINE s == gz_init(s0)
           keeps == {0, IF flush = "NO" THEN Len(s.held) + Len(s.in) ELSE 0}
           Parts(t) == {[to |-> Take(t.out, n), s |-> t] : n \in 0 .. (Len(t.out) - 1)}
<1>1. Holds(s, file, gv) /\ s.size = Want
  BY InitHolds
<1>2. ~s.finishing /\ s.held \in Seq(Byte) /\ s.in \in Seq(Byte) /\ file \in Seq(Unit)
  BY <1>1 DEF Holds, WriterOK
<1>3. \/ ~failing /\ \E k \in keeps : r = Through(s, flush, k)
      \/ \E k \in keeps : r \in IF Stopped(s, flush, k).err = "OK" THEN {[to |-> <<>>, s |-> Stopped(s, flush, k)]}
                                ELSE Parts(Stopped(s, flush, k))
  BY <1>2 DEF gz_comp
<1> HIDE DEF s, Parts
<1>4. ASSUME NEW k \in keeps PROVE k \in Nat /\ KeepOK(s, flush, k)
  <2>1. PICK a \in Seq(Byte) : a = s.held
    BY <1>2
  <2>2. PICK b \in Seq(Byte) : b = s.in
    BY <1>2
  <2>3. PICK n \in Nat : n = Len(a) + Len(b)
    OBVIOUS
  <2>4. k = 0 \/ (flush = "NO" /\ k = n)
    BY <2>1, <2>2, <2>3
  <2>5. n = Len(s.held) + Len(s.in)
    BY <2>1, <2>2, <2>3
  <2>6. k \in Nat
    BY <2>4
  <2>7. KeepOK(s, flush, k)
    BY <2>4, <2>5, Zenon DEF KeepOK
  <2> QED BY <2>6, <2>7
<1> HIDE DEF keeps
<1>5. ASSUME NEW k \in keeps, r = Through(s, flush, k) PROVE FALSE
  <2>1. k \in Nat /\ KeepOK(s, flush, k)
    BY <1>4
  <2>2. Is(r, Through(s, flush, k)) /\ Is(s.size, Want)
    BY <1>1, <1>5 DEF Is
  <2>3. Holds(r.s, file \o r.to, gv)
    BY <1>1, <2>1, <2>2, ThroughHolds
  <2> QED BY <2>3 DEF Holds
<1>6. ASSUME NEW k \in keeps,
             r \in IF Stopped(s, flush, k).err = "OK" THEN {[to |-> <<>>, s |-> Stopped(s, flush, k)]}
                   ELSE Parts(Stopped(s, flush, k))
      PROVE  FilePart(file \o r.to, gv)
  <2>1. PICK t : t = Stopped(s, flush, k)
    OBVIOUS
  <2>2. t.err # "OK"
    <3>1. t.err = "OK" => r.s = t
      BY <1>6, <2>1
    <3> QED BY <3>1
  <2>3. r \in Parts(t)
    BY <1>6, <2>1, <2>2
  <2>4. PICK n \in 0 .. (Len(t.out) - 1) : r.to = Take(t.out, n)
    BY <2>3 DEF Parts
  <2>5. k \in Nat /\ KeepOK(s, flush, k) /\ Is(t, Stopped(s, flush, k)) /\ n \in Nat
    BY <1>4, <2>1 DEF Is
  <2>6. FilePart(file \o Take(t.out, n), gv)
    BY <1>1, <2>2, <2>5, StoppedPart
  <2> QED BY <2>4, <2>6
<1> QED BY <1>3, <1>5, <1>6

---------------------------------------------------------------------------
(* The calls that write *)

(* What a step other than gz_comp() leaves of a gz_state. *)
Untouched(t, s) ==
  /\ WriterOK(t) /\ t.held = s.held /\ t.pend = s.pend /\ t.out = s.out
  /\ t.begun = s.begun /\ t.finishing = s.finishing /\ t.err = s.err

LEMMA BytesInts == \A s \in Seq(Byte) : s \in Seq(Int)
<1> SUFFICES ASSUME NEW s \in Seq(Byte) PROVE s \in Seq(Int)
  OBVIOUS
<1>1. \A i \in 1 .. Len(s) : s[i] \in Byte
  OBVIOUS
<1>0. \A x \in Byte : x \in Int
  BY DEF Byte
<1>2. \A i \in 1 .. Len(s) : s[i] \in Int
  BY <1>0, <1>1
<1>3. s \in [1 .. Len(s) -> Byte] /\ Len(s) \in Nat
  OBVIOUS
<1>4. s = [i \in 1 .. Len(s) |-> s[i]]
  BY <1>3, Zenon
<1>5. s \in [1 .. Len(s) -> Int]
  BY <1>2, <1>4
<1> QED BY <1>3, <1>5

LEMMA UnitsInts == \A s \in Seq(Unit) : s \in Seq(Int)
<1> SUFFICES ASSUME NEW s \in Seq(Unit) PROVE s \in Seq(Int)
  OBVIOUS
<1>1. \A i \in 1 .. Len(s) : s[i] \in Unit
  OBVIOUS
<1>0. \A x \in Unit : x \in Int
  BY DEF Unit
<1>2. \A i \in 1 .. Len(s) : s[i] \in Int
  BY <1>0, <1>1
<1>3. s \in [1 .. Len(s) -> Unit] /\ Len(s) \in Nat
  OBVIOUS
<1>4. s = [i \in 1 .. Len(s) |-> s[i]]
  BY <1>3, Zenon
<1>5. s \in [1 .. Len(s) -> Int]
  BY <1>2, <1>4
<1> QED BY <1>3, <1>5

(* Bytes come to the input buffer. *)
LEMMA HoldsMore ==
  ASSUME NEW s, NEW f, NEW gv \in Seq(Int), Holds(s, f, gv), NEW t, Untouched(t, s),
         NEW b \in Seq(Byte), Is(t.in, s.in \o b)
  PROVE  Holds(t, f, gv \o b)
<1>1. PICK d \in Seq(Unit) : DecodesTo(f \o (s.out \o s.pend), s.begun, d) /\ Is(d \o (s.held \o s.in), gv)
  BY DEF Holds
<1>2. PICK hl \in Seq(Int) : hl = s.held
  BY BytesInts DEF Holds, WriterOK
<1>3. PICK in \in Seq(Int) : in = s.in
  BY BytesInts DEF Holds, WriterOK
<1>4. PICK c \in Seq(Int) : c = d
  BY UnitsInts
<1>5. PICK bb \in Seq(Int) : bb = b
  BY BytesInts
<1>6. Regroup2(c, hl, in, bb)
  BY Regroup2Is
<1>7. Is(c \o (hl \o in), gv)
  BY <1>1, <1>2, <1>3, <1>4
<1>8. Is(c \o (hl \o (in \o bb)), gv \o bb)
  BY <1>6, <1>7 DEF Is, Regroup2
<1>9. t.held = hl /\ t.in = in \o bb
  BY <1>2, <1>3, <1>5 DEF Untouched, Is
<1>10. Is(d \o (t.held \o t.in), gv \o b)
  BY <1>4, <1>5, <1>8, <1>9
<1>11. DecodesTo(f \o (t.out \o t.pend), t.begun, d)
  BY <1>1 DEF Untouched
<1> QED BY <1>10, <1>11 DEF Holds, Untouched

LEMMA HoldsSame ==
  ASSUME NEW s, NEW f, NEW gv, Holds(s, f, gv), NEW t, Untouched(t, s), t.in = s.in
  PROVE  Holds(t, f, gv)
BY DEF Holds, Untouched

LEMMA TimesIs ==
  ASSUME NEW n \in Nat, NEW b, NEW T, b \in T
  PROVE  Times(n, b) \in Seq(T) /\ Len(Times(n, b)) = n /\ \A i \in 1 .. n : Times(n, b)[i] = b
BY DEF Times

CallOK(c) ==
  /\ DOMAIN c = {"op", "over", "data", "flush", "large"}
  /\ c.over \in BOOLEAN /\ c.data \in Seq(Byte) /\ c.flush \in Flushes
ZeroOK(z) ==
  DOMAIN z = {"left", "fill", "consumed"} /\ z.left \in Nat /\ z.fill \in {NoFill, 0, JUNK}

(* A file being written, with a call c and a gap z under way. *)
WritesOK(s, f, gv, c, z) ==
  /\ Holds(s, f, gv) /\ gv \in Seq(Int) /\ CallOK(c) /\ ZeroOK(z)
  /\ z.left > 0 /\ z.consumed => s.in = <<>>
  /\ c.op = "closed" => ~c.over /\ z.left = 0 /\ Empty(s) /\ ~s.begun
  /\ c.op = "flush" /\ c.over /\ c.flush # "NO" => Empty(s)

WOK == WritesOK(w, file, given, wcall, zeroing)

(* Or a write has failed, and no call goes on but gzclose_w(). *)
WFell == /\ FilePart(file, given) /\ given \in Seq(Int)
         /\ \/ wcall.over /\ w.err # "OK"
            \/ wcall.op = "closed" /\ ~wcall.over /\ zeroing.left = 0

Wrote == \/ marred = {} /\ WOK
         \/ marred = {"write"} /\ WFell

Fallen(m, f, c, s, gv) == m = {"write"} /\ FilePart(f, gv) /\ c.over /\ s.err # "OK"

LEMMA FallenIs ==
  ASSUME Fallen(marred', file', wcall', w', given'), given' \in Seq(Int)
  PROVE  Wrote'
BY DEF Fallen, Wrote, WFell

(* gz_comp() as a step of a call. *)
LEMMA CompStep ==
  ASSUME NEW s, NEW gv, Holds(s, file, gv), NEW flush \in Flushes, NEW call, NEW more, "write" \notin more,
         CallOK(wcall), Comp(s, flush, call, more), marred = {}, marred' \subseteq {"write"}
  PROVE  \/ Fallen(marred', file', wcall', w', gv)
         \/ /\ marred' = {} /\ Holds(w', file', gv) /\ w'.in = <<>> /\ wcall' = call
            /\ flush # "NO" => Empty(w')
<1>1. PICK r \in gz_comp(s, flush) : /\ w' = r.s /\ file' = file \o r.to
                                     /\ marred' = marred \cup more \cup Fails(r.s)
                                     /\ wcall' = IF r.s.err = "OK" THEN call ELSE [wcall EXCEPT !.over = TRUE]
  BY DEF Comp
<1>2. CASE r.s.err = "OK"
  <2>1. /\ Holds(r.s, file \o r.to, gv) /\ r.s.in = <<>>
        /\ flush # "NO" => Empty(r.s)
    BY <1>2, CompHolds
  <2>2. marred' = {}
    BY <1>1, <1>2 DEF Fails
  <2> QED BY <1>1, <1>2, <2>1, <2>2
<1>3. CASE r.s.err # "OK"
  <2>1. FilePart(file \o r.to, gv)
    BY <1>3, CompPart
  <2>2. marred' = {"write"}
    BY <1>1, <1>3 DEF Fails
  <2>3. wcall'.over = TRUE
    BY <1>1, <1>3 DEF CallOK
  <2> QED BY <1>1, <1>3, <2>1, <2>2, <2>3 DEF Fallen
<1> QED BY <1>2, <1>3

(* Done keeps everything of the call but its data. *)
LEMMA DoneIs ==
  ASSUME CallOK(wcall)
  PROVE  CallOK(Done) /\ Done.op = wcall.op /\ Done.over /\ Done.flush = wcall.flush
BY DEF CallOK, Done

LEMMA TimesByte ==
  ASSUME NEW n \in Nat
  PROVE  Times(n, A) \in Seq(Byte)
<1>1. A \in Byte
  BY DEF A, Byte
<1> QED BY <1>1, TimesIs

(* A call begins. *)
LEMMA BeginStep ==
  ASSUME NEW s, Holds(s, file, given), given \in Seq(Int), NEW op, op \notin {"closed"}, NEW data \in Seq(Byte),
         NEW flush \in Flushes, WBegin(s, op, data, flush)
  PROVE  WOK' /\ (marred' = marred)
<1>1. /\ wcall' = [op |-> op, over |-> FALSE, data |-> data, flush |-> flush,
                   large |-> s.size > 0 /\ Len(data) >= s.size]
      /\ zeroing' = IF s.seek = 0 THEN NoZero ELSE [left |-> s.seek, fill |-> NoFill, consumed |-> FALSE]
      /\ w' = [s EXCEPT !.seek = 0] /\ given' = given /\ file' = file
      /\ marred' = marred \cup Resumes(s)
  BY DEF WBegin
<1>2. WriterOK(s) /\ s.seek \in Nat
  BY DEF Holds, WriterOK
<1>3. Untouched([s EXCEPT !.seek = 0], s) /\ [s EXCEPT !.seek = 0].in = s.in
  BY <1>2 DEF Untouched, WriterOK, Fields
<1>4. Holds(w', file, given)
  BY <1>1, <1>3, HoldsSame
<1>5. CallOK(wcall') /\ wcall'.over = FALSE /\ wcall'.op = op
  BY <1>1 DEF CallOK
<1>6. ZeroOK(zeroing') /\ ~(zeroing'.left > 0 /\ zeroing'.consumed)
  BY <1>1, <1>2 DEF ZeroOK, NoZero
<1>7. marred' = marred
  BY <1>1 DEF Holds, Resumes
<1> QED BY <1>1, <1>4, <1>5, <1>6, <1>7 DEF WOK, WritesOK

LEMMA BeginsStep ==
  ASSUME WOK, \/ \E n \in Bytes : gzwrite(n) \/ gzprintf(n)
              \/ \E f \in {"NO", "SYNC", "FINISH"} : gzflush(f)
              \/ \E level \in {0, 1} : gzsetparams(level)
              \/ gzputc \/ gzclose_w
  PROVE  WOK' /\ (marred' = marred)
<1>1. Holds(w, file, given) /\ given \in Seq(Int) /\ Holds(gz_init(w), file, given)
  BY InitHolds DEF WOK, WritesOK
<1>2. <<>> \in Seq(Byte) /\ <<A>> \in Seq(Byte)
  BY DEF A, Byte
<1>3. ASSUME NEW n \in Bytes, gzwrite(n) \/ gzprintf(n) PROVE WOK' /\ (marred' = marred)
  <2>1. n \in Nat
    BY GzWriteAssumption
  <2>2. PICK d \in Seq(Byte) : d = Times(n, A)
    BY <2>1, TimesByte
  <2>3. WBegin(gz_init(w), "write", d, "NO") \/ WBegin(gz_init(w), "printf", d, "NO")
    BY <1>3, <2>2 DEF gzwrite, gzprintf
  <2>4. WOK' /\ (marred' = marred)
    BY <1>1, <2>3, BeginStep DEF Flushes
  <2> QED BY <2>4
<1>4. ASSUME NEW f \in {"NO", "SYNC", "FINISH"}, gzflush(f) PROVE WOK' /\ (marred' = marred)
  <2>1. WBegin(w, "flush", <<>>, f)
    BY <1>4 DEF gzflush
  <2>2. f \in Flushes
    BY DEF Flushes
  <2>4. WOK' /\ (marred' = marred)
    BY <1>1, <1>2, <2>1, <2>2, BeginStep
  <2> QED BY <2>4
<1>5. ASSUME NEW level \in {0, 1}, gzsetparams(level) PROVE WOK' /\ (marred' = marred)
  <2>1. WBegin(w, "params", <<>>, "PARTIAL")
    BY <1>5 DEF gzsetparams
  <2>4. WOK' /\ (marred' = marred)
    BY <1>1, <1>2, <2>1, BeginStep DEF Flushes
  <2> QED BY <2>4
<1>6. ASSUME gzputc PROVE WOK' /\ (marred' = marred)
  <2>1. WBegin(w, "putc", <<A>>, "NO")
    BY <1>6 DEF gzputc
  <2>4. WOK' /\ (marred' = marred)
    BY <1>1, <1>2, <2>1, BeginStep DEF Flushes
  <2> QED BY <2>4
<1>7. ASSUME gzclose_w PROVE WOK' /\ (marred' = marred)
  <2>1. WBegin(w, "close", <<>>, "FINISH")
    BY <1>7 DEF gzclose_w
  <2>4. WOK' /\ (marred' = marred)
    BY <1>1, <1>2, <2>1, BeginStep DEF Flushes
  <2> QED BY <2>4
<1> QED BY <1>3, <1>4, <1>5, <1>6, <1>7

LEMMA SeekStep ==
  ASSUME WOK, NEW offset \in Gaps, gzseek_w(offset)
  PROVE  WOK' /\ (marred' = marred)
<1>1. /\ w' = [w EXCEPT !.seek = offset] /\ wcall' = NoWrite
      /\ zeroing' = zeroing /\ given' = given /\ marred' = marred /\ file' = file
  BY DEF gzseek_w
<1>2. WriterOK(w) /\ offset \in Nat
  BY GzWriteAssumption DEF Holds, WOK, WritesOK
<1>3. Untouched([w EXCEPT !.seek = offset], w) /\ [w EXCEPT !.seek = offset].in = w.in
  BY <1>2 DEF Untouched, WriterOK, Fields
<1>4. Holds(w', file, given) /\ w'.in = w.in
  BY <1>1, <1>3, HoldsSame DEF WOK, WritesOK
<1>5. CallOK(wcall') /\ wcall'.op = "none"
  BY <1>1, EmptySeq DEF CallOK, NoWrite, Flushes
<1> QED BY <1>1, <1>4, <1>5 DEF WOK, WritesOK


LEMMA TakenBytes ==
  ASSUME NEW s \in Seq(Byte), NEW n \in Nat, n <= Len(s)
  PROVE  Take(s, n) \in Seq(Byte) /\ Take(s, n) \in Seq(Int)
<1>1. Take(s, n) \in Seq(Byte)
  BY TakeAt
<1>2. Take(s, n) \in Seq(Int)
  BY <1>1, BytesInts
<1> QED BY <1>1, <1>2

LEMMA DroppedBytes ==
  ASSUME NEW s \in Seq(Byte), NEW n \in 0 .. Len(s)
  PROVE  Drop(s, n) \in Seq(Byte)
BY DropAt

LEMMA ZeroStep ==
  ASSUME WOK, marred = {}, Zero, marred' \subseteq {"write"}
  PROVE  Wrote'
<1>1. /\ ~wcall.over /\ zeroing.left > 0 /\ ZeroOK(zeroing) /\ CallOK(wcall)
      /\ Holds(w, file, given) /\ given \in Seq(Int)
      /\ zeroing.consumed => w.in = <<>>
      /\ wcall.op # "closed"
  <2>1. ~wcall.over /\ zeroing.left > 0
    BY DEF Zero
  <2>2. zeroing.left # 0
    BY <2>1 DEF WOK, WritesOK, ZeroOK
  <2> QED BY <2>1, <2>2 DEF WOK, WritesOK
<1>2. CASE ~zeroing.consumed
  <2>1. zeroing' = [zeroing EXCEPT !.consumed = TRUE] /\ given' = given
        /\ (\/ w.in = <<>> /\ Plain(w, wcall, {})
            \/ Comp(w, "NO", wcall, {}))
    BY <1>2 DEF Zero
  <2>2. ZeroOK(zeroing') /\ zeroing'.left = zeroing.left
    BY <1>1, <2>1 DEF ZeroOK
  <2>3. \/ Fallen(marred', file', wcall', w', given)
        \/ marred' = {} /\ Holds(w', file', given) /\ w'.in = <<>> /\ wcall' = wcall
    <3>1. CASE Comp(w, "NO", wcall, {})
      BY <1>1, <3>1, CompStep DEF Flushes
    <3>2. CASE w.in = <<>> /\ Plain(w, wcall, {})
      BY <1>1, <3>2 DEF Plain
    <3> QED BY <2>1, <3>1, <3>2
  <2>4. CASE Fallen(marred', file', wcall', w', given)
    BY <1>1, <2>1, <2>4, FallenIs
  <2>5. CASE marred' = {} /\ Holds(w', file', given) /\ w'.in = <<>> /\ wcall' = wcall
    BY <1>1, <2>1, <2>2, <2>5 DEF Wrote, WOK, WritesOK
  <2> QED BY <2>3, <2>4, <2>5
<1>3. CASE zeroing.consumed
  <2> DEFINE n == Lesser(w.size, zeroing.left)
  <2>1. PICK b \in Fills(n, zeroing.fill) :
            /\ zeroing' = [zeroing EXCEPT !.left = @ - n, !.fill = b]
            /\ given' = given \o Times(n, 0)
            /\ Comp([w EXCEPT !.in = Times(n, b), !.pos = @ + n], "NO", wcall,
                    IF n > 0 /\ b # 0 THEN {"gap"} ELSE {})
    BY <1>3 DEF Zero
  <2>2. w.size \in Nat /\ zeroing.left \in Nat /\ WriterOK(w)
    BY <1>1, GzWriteAssumption, SMTT(60) DEF Holds, WriterOK, ZeroOK
  <2>3. n \in Nat /\ n <= zeroing.left
    BY <2>2 DEF Lesser
  <2> HIDE DEF n
  <2>4. b \in {0, JUNK}
    BY <1>1 DEF Fills, ZeroOK
  <2>5. ~(n > 0 /\ b # 0)
    <3>1. ASSUME n > 0 /\ b # 0 PROVE "gap" \in marred'
      BY <2>1, <3>1 DEF Comp
    <3> QED BY <3>1
  <2>6. b \in Byte /\ 0 \in Byte
    BY <2>4 DEF Byte, JUNK
  <2>7. PICK in \in Seq(Byte) : in = Times(n, b) /\ in = Times(n, 0)
    <3>1. Times(n, b) \in Seq(Byte) /\ Times(n, 0) \in Seq(Byte)
      BY <2>3, <2>6, TimesIs
    <3>2. CASE b = 0
      BY <3>1, <3>2
    <3>3. CASE n = 0
      <4>1. Len(Times(n, b)) = 0 /\ Len(Times(n, 0)) = 0
        BY <2>3, <2>6, <3>3, TimesIs
      <4>2. Times(n, b) = <<>> /\ Times(n, 0) = <<>>
        BY <3>1, <4>1, EmptySeq
      <4> QED BY <3>1, <4>2
    <3> QED BY <2>3, <2>5, <3>2, <3>3
  <2>8. PICK more : more = IF n > 0 /\ b # 0 THEN {"gap"} ELSE {}
    OBVIOUS
  <2>9. "write" \notin more
    BY <2>8
  <2>10. PICK s : s = [w EXCEPT !.in = in, !.pos = @ + n]
    OBVIOUS
  <2>11. Untouched(s, w) /\ s.in = in
    BY <2>2, <2>10 DEF Untouched, WriterOK, Fields
  <2>12. w.in \o in = in
    BY <1>1, <1>3, EmptyConcat
  <2>13. Is(s.in, w.in \o in)
    BY <2>11, <2>12 DEF Is
  <2>14. Holds(s, file, given \o in)
    BY <1>1, <2>11, <2>13, HoldsMore
  <2>15. Comp(s, "NO", wcall, more) /\ given' = given \o in
    BY <2>1, <2>7, <2>8, <2>10
  <2>16. \/ Fallen(marred', file', wcall', w', given \o in)
         \/ marred' = {} /\ Holds(w', file', given \o in) /\ w'.in = <<>> /\ wcall' = wcall
    BY <1>1, <2>9, <2>14, <2>15, CompStep DEF Flushes
  <2>17. ZeroOK(zeroing')
    BY <1>1, <2>1, <2>3, <2>4 DEF ZeroOK
  <2>18. given \o in \in Seq(Int)
    BY <1>1, BytesInts, ConcatAt
  <2>19. CASE Fallen(marred', file', wcall', w', given \o in)
    BY <2>15, <2>18, <2>19, FallenIs
  <2>20. CASE marred' = {} /\ Holds(w', file', given \o in) /\ w'.in = <<>> /\ wcall' = wcall
    BY <1>1, <2>15, <2>17, <2>18, <2>20, SMTT(60) DEF Wrote, WOK, WritesOK
  <2> QED BY <2>16, <2>19, <2>20
<1> QED BY <1>2, <1>3, SMTT(60)

(* A call that goes on or ends with what has been given in the buffers, or fails. *)
LEMMA GivenNow ==
  ASSUME WOK, marred = {}, marred' \subseteq {"write"}, zeroing' = zeroing, zeroing.left = 0,
         given' \in Seq(Int), NEW s, Holds(s, file, given'), NEW call, CallOK(call),
         call.op \notin {"closed", "flush"}, NEW flush \in Flushes, Plain(s, call, {}) \/ Comp(s, flush, call, {})
  PROVE  Wrote'
<1>1. ZeroOK(zeroing) /\ CallOK(wcall)
  BY DEF WOK, WritesOK
<1>2. PICK gv : gv = given'
  OBVIOUS
<1>3. \/ Fallen(marred', file', wcall', w', gv)
      \/ marred' = {} /\ Holds(w', file', gv) /\ wcall' = call
  <2>1. CASE Plain(s, call, {})
    BY <1>2, <2>1 DEF Plain
  <2>2. CASE Comp(s, flush, call, {})
    BY <1>1, <1>2, <2>2, CompStep
  <2> QED BY <2>1, <2>2
<1>4. CASE Fallen(marred', file', wcall', w', gv)
  BY <1>2, <1>4, FallenIs
<1>5. CASE marred' = {} /\ Holds(w', file', gv) /\ wcall' = call
  BY <1>1, <1>2, <1>5 DEF Wrote, WOK, WritesOK
<1> QED BY <1>3, <1>4, <1>5

(* Bytes are added to the input buffer. *)
LEMMA GivenStep ==
  ASSUME WOK, marred = {}, marred' \subseteq {"write"}, zeroing' = zeroing, zeroing.left = 0,
         NEW b \in Seq(Byte), NEW s, Untouched(s, w), Is(s.in, w.in \o b), given' = given \o b,
         NEW call, CallOK(call), call.op \notin {"closed", "flush"},
         Plain(s, call, {}) \/ Comp(s, "NO", call, {})
  PROVE  Wrote'
<1>1. Holds(w, file, given) /\ given \in Seq(Int) /\ b \in Seq(Int)
  BY BytesInts DEF WOK, WritesOK
<1>2. Holds(s, file, given \o b)
  BY <1>1, HoldsMore
<1>3. given \o b \in Seq(Int)
  BY <1>1, ConcatAt
<1>4. "NO" \in Flushes /\ given' \in Seq(Int) /\ Holds(s, file, given')
  BY <1>2, <1>3 DEF Flushes
<1> QED BY <1>4, GivenNow

(* Nothing is added. *)
LEMMA GivenNone ==
  ASSUME WOK, marred = {}, marred' \subseteq {"write"}, zeroing' = zeroing, zeroing.left = 0,
         given' = given, NEW s, Holds(s, file, given), NEW call, CallOK(call),
         call.op \notin {"closed", "flush"}, NEW flush \in Flushes, Plain(s, call, {}) \/ Comp(s, flush, call, {})
  PROVE  Wrote'
<1>1. given' \in Seq(Int) /\ Holds(s, file, given')
  BY DEF WOK, WritesOK
<1> QED BY <1>1, GivenNow

(* The input buffer with b added to it, as the calls make it. *)
LEMMA AddedIs ==
  ASSUME NEW s, WriterOK(s), NEW in \in Seq(Byte), NEW p, NEW t, Is(t, [s EXCEPT !.in = in, !.pos = p])
  PROVE  Untouched(t, s) /\ t.in = in
BY DEF Untouched, WriterOK, Fields, Is

LEMMA WriteSmallStep ==
  ASSUME WOK, marred = {}, WriteSmall, marred' \subseteq {"write"}
  PROVE  Wrote'
<1> DEFINE n == IF Len(w.in) > w.size THEN Len(wcall.data)
                ELSE Lesser(w.size - Len(w.in), Len(wcall.data))
           s == [w EXCEPT !.in = @ \o Take(wcall.data, n), !.pos = @ + n]
           call == [wcall EXCEPT !.data = Drop(@, n)]
<1>1. /\ wcall.op = "write" /\ zeroing.left = 0 /\ zeroing' = zeroing
      /\ given' = given \o Take(wcall.data, n)
      /\ IF n = Len(wcall.data) THEN Plain(s, Done, {}) ELSE Comp(s, "NO", call, {})
  BY DEF WriteSmall, Ready2
<1>2. /\ CallOK(wcall) /\ WriterOK(w) /\ wcall.data \in Seq(Byte) /\ w.in \in Seq(Byte)
      /\ Len(w.in) \in Nat /\ Len(wcall.data) \in Nat
      /\ w.size \in Nat
  BY GzWriteAssumption, SMTT(60) DEF WOK, WritesOK, Holds, WriterOK, CallOK
<1>3. n \in Nat /\ n <= Len(wcall.data)
  BY <1>2 DEF Lesser
<1> HIDE DEF n
<1>4. PICK b \in Seq(Byte) : b = Take(wcall.data, n)
  BY <1>2, <1>3, TakenBytes
<1>5. PICK in \in Seq(Byte) : in = w.in \o b
  BY <1>2, ConcatAt
<1>6. Is(s, [w EXCEPT !.in = in, !.pos = w.pos + n])
  BY <1>4, <1>5 DEF Is
<1> HIDE DEF s
<1>7. Untouched(s, w) /\ s.in = in
  BY <1>2, <1>6, AddedIs
<1>8. Is(s.in, w.in \o b) /\ given' = given \o b
  BY <1>1, <1>4, <1>5, <1>7 DEF Is
<1>9. CallOK(call) /\ call.op = "write"
  <2>1. Drop(wcall.data, n) \in Seq(Byte)
    BY <1>2, <1>3, DroppedBytes
  <2> QED BY <1>1, <1>2, <2>1 DEF CallOK
<1>10. CallOK(Done) /\ Done.op = "write"
  BY <1>1, <1>2, DoneIs
<1> HIDE DEF call
<1>11. CASE n = Len(wcall.data)
  <2>1. Plain(s, Done, {})
    BY <1>1, <1>11
  <2> QED BY <1>1, <1>7, <1>8, <1>10, <2>1, GivenStep
<1>12. CASE n # Len(wcall.data)
  <2>1. Comp(s, "NO", call, {})
    BY <1>1, <1>12
  <2> QED BY <1>1, <1>7, <1>8, <1>9, <2>1, GivenStep
<1> QED BY <1>11, <1>12

LEMMA WriteLargeStep ==
  ASSUME WOK, marred = {}, WriteLarge, marred' \subseteq {"write"}
  PROVE  Wrote'
<1>1. /\ wcall.op = "write" /\ zeroing.left = 0 /\ zeroing' = zeroing
      /\ CallOK(wcall) /\ WriterOK(w) /\ wcall.data \in Seq(Byte) /\ Holds(w, file, given)
      /\ CallOK(Done) /\ Done.op = "write"
  BY DoneIs DEF WriteLarge, Ready2, WOK, WritesOK, Holds, CallOK
<1>2. CASE w.in # <<>>
  <2>1. Comp(w, "NO", wcall, {}) /\ given' = given
    BY <1>2 DEF WriteLarge
  <2> QED BY <1>1, <2>1, GivenNone DEF Flushes
<1>3. CASE w.in = <<>>
  <2>1. PICK s : s = [w EXCEPT !.in = wcall.data, !.pos = @ + Len(wcall.data)]
    OBVIOUS
  <2>2. given' = given \o wcall.data /\ Comp(s, "NO", Done, {})
    BY <1>3, <2>1 DEF WriteLarge
  <2>3. Untouched(s, w) /\ s.in = wcall.data
    <3>1. PICK b \in Seq(Byte) : b = wcall.data
      BY <1>1
    <3>2. PICK p : p = w.pos + Len(wcall.data)
      OBVIOUS
    <3>3. WriterOK(w) /\ Is(s, [w EXCEPT !.in = b, !.pos = p])
      BY <1>1, <2>1, <3>1, <3>2 DEF Is
    <3>4. Untouched(s, w) /\ s.in = b
      BY <3>3, AddedIs
    <3> QED BY <3>1, <3>4
  <2>4. Is(s.in, w.in \o wcall.data)
    BY <1>1, <1>3, <2>3, EmptyConcat DEF Is
  <2> QED BY <1>1, <2>2, <2>3, <2>4, GivenStep
<1> QED BY <1>2, <1>3

LEMMA PutcStep ==
  ASSUME WOK, marred = {}, Putc, marred' \subseteq {"write"}
  PROVE  Wrote'
<1>1. /\ wcall.op = "putc" /\ zeroing.left = 0 /\ zeroing' = zeroing
      /\ CallOK(wcall) /\ WriterOK(w) /\ wcall.data \in Seq(Byte) /\ w.in \in Seq(Byte) /\ Holds(w, file, given)
      /\ CallOK(Done) /\ Done.op = "putc"
  BY DoneIs DEF Putc, Ready2, WOK, WritesOK, Holds, CallOK, WriterOK
<1>2. CASE Len(w.in) < w.size
  <2>1. PICK s : s = [w EXCEPT !.in = @ \o wcall.data, !.pos = @ + 1]
    OBVIOUS
  <2>2. given' = given \o wcall.data /\ Plain(s, Done, {})
    BY <1>2, <2>1 DEF Putc
  <2>3. PICK in \in Seq(Byte) : in = w.in \o wcall.data
    BY <1>1, ConcatAt
  <2>4. Untouched(s, w) /\ s.in = in
    <3>1. PICK p : p = w.pos + 1
      OBVIOUS
    <3>2. WriterOK(w) /\ Is(s, [w EXCEPT !.in = in, !.pos = p])
      BY <1>1, <2>1, <2>3, <3>1 DEF Is
    <3> QED BY <3>2, AddedIs
  <2>5. Is(s.in, w.in \o wcall.data)
    BY <2>3, <2>4 DEF Is
  <2> QED BY <1>1, <2>2, <2>4, <2>5, GivenStep
<1>3. CASE ~(Len(w.in) < w.size)
  <2>1. PICK s : s = gz_init(w)
    OBVIOUS
  <2>2. PICK c : c = [wcall EXCEPT !.op = "write", !.large = 1 >= s.size]
    OBVIOUS
  <2>3. Plain(s, c, {}) /\ given' = given
    BY <1>3, <2>1, <2>2 DEF Putc
  <2>4. Holds(s, file, given)
    BY <1>1, <2>1, InitHolds
  <2>5. CallOK(c) /\ c.op = "write"
    BY <1>1, <2>2 DEF CallOK
  <2> QED BY <1>1, <2>3, <2>4, <2>5, GivenNone DEF Flushes
<1> QED BY <1>2, <1>3

LEMMA PrintfStep ==
  ASSUME WOK, marred = {}, Printf, marred' \subseteq {"write"}
  PROVE  Wrote'
<1>1. /\ wcall.op = "printf" /\ zeroing.left = 0 /\ zeroing' = zeroing
      /\ CallOK(wcall) /\ WriterOK(w) /\ wcall.data \in Seq(Byte) /\ Holds(w, file, given)
      /\ CallOK(Done) /\ Done.op = "printf"
  BY DoneIs DEF Printf, Ready2, WOK, WritesOK, Holds, CallOK
<1>2. CASE w.in # <<>>
  <2>1. Comp(w, "NO", wcall, {}) /\ given' = given
    BY <1>2 DEF Printf
  <2> QED BY <1>1, <2>1, GivenNone DEF Flushes
<1>3. CASE w.in = <<>> /\ Len(wcall.data) >= w.size
  <2>1. Plain(w, Done, {}) /\ given' = given
    BY <1>3 DEF Printf
  <2> QED BY <1>1, <2>1, GivenNone DEF Flushes
<1>4. CASE w.in = <<>> /\ ~(Len(wcall.data) >= w.size)
  <2>1. PICK s : s = [w EXCEPT !.in = wcall.data, !.pos = @ + Len(wcall.data)]
    OBVIOUS
  <2>2. given' = given \o wcall.data /\ Plain(s, Done, {})
    BY <1>4, <2>1 DEF Printf
  <2>3. Untouched(s, w) /\ s.in = wcall.data
    <3>1. PICK b \in Seq(Byte) : b = wcall.data
      BY <1>1
    <3>2. PICK p : p = w.pos + Len(wcall.data)
      OBVIOUS
    <3>3. WriterOK(w) /\ Is(s, [w EXCEPT !.in = b, !.pos = p])
      BY <1>1, <2>1, <3>1, <3>2 DEF Is
    <3>4. Untouched(s, w) /\ s.in = b
      BY <3>3, AddedIs
    <3> QED BY <3>1, <3>4
  <2>4. Is(s.in, w.in \o wcall.data)
    BY <1>1, <1>4, <2>3, EmptyConcat DEF Is
  <2> QED BY <1>1, <2>2, <2>3, <2>4, GivenStep
<1> QED BY <1>2, <1>3, <1>4

LEMMA FlushStep ==
  ASSUME WOK, marred = {}, Flush, marred' \subseteq {"write"}
  PROVE  Wrote'
<1>1. /\ wcall.op = "flush" /\ zeroing.left = 0 /\ zeroing' = zeroing /\ ZeroOK(zeroing)
      /\ CallOK(wcall) /\ Holds(w, file, given) /\ given \in Seq(Int)
      /\ CallOK(Done) /\ Done.op = "flush" /\ Done.flush = wcall.flush /\ wcall.flush \in Flushes
      /\ Comp(w, wcall.flush, Done, {}) /\ given' = given
  BY DoneIs DEF Flush, Ready2, WOK, WritesOK, CallOK
<1>2. PICK fl \in Flushes : fl = wcall.flush
  BY <1>1
<1>3. \/ Fallen(marred', file', wcall', w', given)
      \/ /\ marred' = {} /\ Holds(w', file', given) /\ w'.in = <<>> /\ wcall' = Done
         /\ fl # "NO" => Empty(w')
  BY <1>1, <1>2, CompStep
<1>4. CASE Fallen(marred', file', wcall', w', given)
  BY <1>1, <1>4, FallenIs
<1>5. CASE /\ marred' = {} /\ Holds(w', file', given) /\ w'.in = <<>> /\ wcall' = Done
           /\ fl # "NO" => Empty(w')
  BY <1>1, <1>2, <1>5 DEF Wrote, WOK, WritesOK
<1> QED BY <1>3, <1>4, <1>5

(* deflateParams() puts the beginning of what deflate() holds back to the output buffer. *)
LEMMA ParamsHolds ==
  ASSUME Holds(w, file, given), NEW s, NEW all \in Seq(Unit), NEW n \in Nat, n <= Len(all), NEW room \in Nat, NEW level,
         NEW hl \in Seq(Byte), NEW rest \in Seq(Byte), Is(hl \o rest, w.held),
         Is(all, w.out \o w.pend \o hl),
         Is(s, [w EXCEPT !.level = level, !.out = Take(all, n), !.pend = Drop(all, n), !.room = room, !.held = rest])
  PROVE  Holds(s, file, given)
<1>1. /\ WriterOK(w) /\ ~w.finishing /\ w.err = "OK" /\ file \in Seq(Unit) /\ DOMAIN w = Fields
      /\ w.out \in Seq(Unit) /\ w.pend \in Seq(Unit)
      /\ w.begun \/ w.held = <<>>
  BY DEF Holds, WriterOK
<1>2. PICK d \in Seq(Unit) : DecodesTo(file \o (w.out \o w.pend), w.begun, d) /\ Is(d \o (w.held \o w.in), given)
  BY DEF Holds
<1>4. PICK in \in Seq(Byte) : Is(in, w.in)
  BY DEF Holds, WriterOK, Is
<1>5. hl \in Seq(Unit) /\ in \in Seq(Unit) /\ rest \in Seq(Unit)
  BY UnitsBytes
<1>6. PICK op \in Seq(Unit) : Is(op, w.out \o w.pend)
  <2>1. w.out \o w.pend \in Seq(Unit)
    BY <1>1, ConcatAt
  <2> QED BY <2>1 DEF Is
<1>7. Is(all, op \o hl)
  BY <1>6 DEF Is
<1>8. PICK o \in Seq(Unit) : Is(o, Take(all, n))
  BY TakeAt DEF Is
<1>9. PICK p \in Seq(Unit) : Is(p, Drop(all, n))
  BY DropAt DEF Is
<1>10. Is(o \o p, all)
  BY <1>8, <1>9, TakeDrop DEF Is
<1>11. Is(s, [w EXCEPT !.level = level, !.out = o, !.pend = p, !.room = room, !.held = rest])
  BY <1>8, <1>9 DEF Is
<1>12. /\ WriterOK(s) /\ s.out = o /\ s.pend = p /\ s.held = rest /\ s.in = w.in /\ s.begun = w.begun
       /\ s.finishing = w.finishing /\ s.err = w.err
  BY <1>1, <1>11, ZenonT(60) DEF Is, WriterOK, Fields
<1>13. PICK fo \in Seq(Unit) : Is(fo, file \o op)
  BY <1>1, ConcatAt DEF Is
<1>14. DecodesTo(fo, w.begun, d)
  BY <1>2, <1>6, <1>13 DEF Is
<1>15. Is(file \o all, fo \o hl)
  <2>1. Assoc(file, op, hl)
    BY <1>1, <1>5, AssocIs
  <2> QED BY <1>7, <1>13, <2>1 DEF Is, Assoc
<1>16. PICK e \in Seq(Unit) : Is(e, d \o hl)
  BY <1>5, ConcatAt DEF Is
<1>17. DecodesTo(fo \o hl, w.begun, e)
  <2>1. fo \o hl \in Seq(Unit)
    BY <1>5, ConcatAt
  <2>2. CASE w.begun
    <3>1. Decoded(fo).how = "data" /\ Decoded(fo).data = d
      BY <1>14, <2>2 DEF DecodesTo
    <3>2. Decoded(fo \o hl) = [how |-> "data", data |-> d \o hl]
      BY <3>1, DecodedBytes
    <3> QED BY <1>16, <2>1, <2>2, <3>2 DEF DecodesTo, Is
  <2>3. CASE ~w.begun
    <3>1. hl = <<>>
      <4>1. Len(hl) = 0
        <5>1. Is(hl \o rest, <<>>)
          BY <1>1, <2>3 DEF Is
        <5>2. Len(hl \o rest) = Len(hl) + Len(rest) /\ Len(hl) \in Nat /\ Len(rest) \in Nat
          OBVIOUS
        <5> QED BY <5>1, <5>2 DEF Is
      <4> QED BY <4>1, EmptySeq
    <3>2. fo \o <<>> = fo /\ d \o <<>> = d
      BY EmptyConcat
    <3> QED BY <1>14, <1>16, <3>1, <3>2 DEF Is
  <2> QED BY <2>2, <2>3
<1>18. DecodesTo(file \o (s.out \o s.pend), s.begun, e)
  BY <1>10, <1>12, <1>15, <1>17 DEF Is
<1>19. Is(e \o (s.held \o s.in), given)
  <2>1. Is(d \o ((hl \o rest) \o in), given)
    BY <1>2, <1>4 DEF Is
  <2>2. Assoc(hl, rest, in)
    BY <1>5, AssocIs
  <2>3. PICK ri \in Seq(Unit) : Is(ri, rest \o in)
    BY <1>5, ConcatAt DEF Is
  <2>4. Assoc(d, hl, ri)
    BY <1>5, AssocIs
  <2>5. Is(d \o (hl \o ri), given)
    BY <2>1, <2>2, <2>3 DEF Is, Assoc
  <2>6. Is(e \o ri, given)
    BY <1>16, <2>4, <2>5 DEF Is, Assoc
  <2> QED BY <1>4, <1>12, <2>3, <2>6 DEF Is
<1>20. s.begun \/ s.held = <<>>
  <2>1. CASE w.begun
    BY <1>12, <2>1
  <2>2. CASE ~w.begun
    <3>1. Is(hl \o rest, <<>>)
      BY <1>1, <2>2 DEF Is
    <3>2. Len(hl \o rest) = Len(hl) + Len(rest) /\ Len(hl) \in Nat /\ Len(rest) \in Nat
      OBVIOUS
    <3>3. Len(rest) = 0
      BY <3>1, <3>2 DEF Is
    <3> QED BY <1>12, <3>3, EmptySeq
  <2> QED BY <2>1, <2>2
<1> QED BY <1>1, <1>12, <1>18, <1>19, <1>20 DEF Holds

LEMMA ParamsStep ==
  ASSUME WOK, marred = {}, Params, marred' \subseteq {"write"}
  PROVE  Wrote'
<1>1. /\ wcall.op = "params" /\ zeroing.left = 0 /\ zeroing' = zeroing /\ given' = given
      /\ CallOK(wcall) /\ WriterOK(w) /\ Holds(w, file, given)
      /\ CallOK(Done) /\ Done.op = "params"
  BY DoneIs DEF Params, Ready2, WOK, WritesOK, Holds
<1>2. CASE Comp(w, "PARTIAL", wcall, {})
  BY <1>1, <1>2, GivenNone DEF Flushes
<1>3. CASE Plain([w EXCEPT !.level = 1 - @], Done, {})
  <2>1. PICK s : s = [w EXCEPT !.level = 1 - @]
    OBVIOUS
  <2>2. Untouched(s, w) /\ s.in = w.in
    BY <1>1, <2>1 DEF Untouched, WriterOK, Fields
  <2>3. Holds(s, file, given)
    BY <1>1, <2>2, HoldsSame
  <2>4. Plain(s, Done, {})
    BY <1>3, <2>1
  <2> QED BY <1>1, <2>3, <2>4, GivenNone DEF Flushes
<1>4. ASSUME NEW k \in 0 .. Len(w.held), Plain(Blocked(w, k, Drop(w.held, k)), Done, {})
      PROVE  Wrote'
  <2>1. w.out \in Seq(Unit) /\ w.pend \in Seq(Unit) /\ w.held \in Seq(Byte) /\ w.room \in Nat
    BY <1>1 DEF WriterOK
  <2>2. k \in Nat /\ k <= Len(w.held)
    BY <2>1
  <2>3. PICK hl \in Seq(Byte) : hl = Take(w.held, k)
    BY <2>1, <2>2, TakeAt
  <2>4. PICK rest \in Seq(Byte) : rest = Drop(w.held, k)
    BY <2>1, <2>2, DropAt
  <2>5. Is(hl \o rest, w.held)
    BY <2>1, <2>2, <2>3, <2>4, TakeDrop DEF Is
  <2>6. PICK all \in Seq(Unit) : all = w.out \o w.pend \o hl
    <3>1. hl \in Seq(Unit) /\ w.out \o w.pend \in Seq(Unit)
      BY <2>1, UnitsBytes, ConcatAt
    <3> QED BY <3>1, ConcatAt
  <2>7. PICK cap \in Nat : cap = Len(w.out) + w.room
    BY <2>1
  <2>8. PICK n \in Nat : n = Lesser(cap, Len(all)) /\ n <= Len(all) /\ cap - n \in Nat
    BY DEF Lesser
  <2>9. PICK room \in Nat : room = cap - n
    BY <2>8
  <2>10. PICK level : level = 1 - w.level
    OBVIOUS
  <2>11. PICK s : s = [w EXCEPT !.level = level, !.out = Take(all, n), !.pend = Drop(all, n), !.room = room,
                               !.held = rest]
    OBVIOUS
  <2>12. Plain(s, Done, {})
    BY <1>4, <2>3, <2>4, <2>6, <2>7, <2>8, <2>9, <2>10, <2>11 DEF Blocked
  <2>13. Holds(s, file, given)
    <3>1. /\ Is(all, w.out \o w.pend \o hl)
          /\ Is(s, [w EXCEPT !.level = level, !.out = Take(all, n), !.pend = Drop(all, n), !.room = room,
                             !.held = rest])
      BY <2>6, <2>11 DEF Is
    <3> QED BY <1>1, <2>5, <2>8, <3>1, ParamsHolds
  <2> QED BY <1>1, <2>12, <2>13, GivenNone DEF Flushes
<1>5. ASSUME NEW s, Plain(s, Done, {"params"}) PROVE FALSE
  BY <1>5 DEF Plain
<1> QED BY <1>2, <1>3, <1>4, <1>5 DEF Params

LEMMA CloseStep ==
  ASSUME WOK, marred = {}, Close, marred' \subseteq {"write"}
  PROVE  Wrote'
<1>1. Holds(w, file, given) /\ given \in Seq(Int) /\ "FINISH" \in Flushes
  BY DEF WOK, WritesOK, Flushes
<1>2. zeroing' = NoZero /\ given' = given
  BY DEF Close
<1>3. PICK r \in gz_comp(w, "FINISH") :
       /\ w' = r.s /\ file' = file \o r.to
       /\ marred' = marred \cup Resumes(w) \cup Fails(r.s)
       /\ wcall' = [NoWrite EXCEPT !.op = "closed", !.over = FALSE]
  BY DEF Close
<1>4. marred' = Fails(r.s)
  BY <1>1, <1>3 DEF Holds, Resumes
<1>6. CallOK(wcall') /\ wcall'.op = "closed" /\ ~wcall'.over
  BY <1>3, EmptySeq DEF CallOK, NoWrite, Flushes
<1>7. ZeroOK(zeroing') /\ zeroing'.left = 0
  BY <1>2 DEF ZeroOK, NoZero
<1>8. CASE r.s.err = "OK"
  <2>1. Holds(r.s, file \o r.to, given) /\ Empty(r.s) /\ ~r.s.begun
    BY <1>1, <1>8, CompHolds
  <2>2. marred' = {}
    BY <1>4, <1>8 DEF Fails
  <2> QED BY <1>1, <1>2, <1>3, <1>6, <1>7, <2>1, <2>2 DEF Wrote, WOK, WritesOK
<1>9. CASE r.s.err # "OK"
  <2>1. FilePart(file \o r.to, given)
    BY <1>1, <1>9, CompPart
  <2>2. marred' = {"write"}
    BY <1>4, <1>9 DEF Fails
  <2> QED BY <1>1, <1>2, <1>3, <1>6, <1>7, <2>1, <2>2 DEF Wrote, WFell
<1> QED BY <1>8, <1>9

(* A step of a file being written. *)
LEMMA WriteStep ==
  ASSUME WOK, marred = {}, WNext, marred' \subseteq {"write"}
  PROVE  Wrote'
<1>1. CASE \E offset \in Gaps : gzseek_w(offset)
  BY <1>1, SeekStep DEF Wrote
<1>2. CASE gzclearerr_w
  <2>1. w.err = "OK"
    BY DEF WOK, WritesOK, Holds
  <2> QED BY <1>2, <2>1 DEF gzclearerr_w
<1>3. CASE Zero
  BY <1>3, ZeroStep
<1>4. CASE WriteSmall
  BY <1>4, WriteSmallStep
<1>5. CASE WriteLarge
  BY <1>5, WriteLargeStep
<1>6. CASE Putc
  BY <1>6, PutcStep
<1>7. CASE Printf
  BY <1>7, PrintfStep
<1>8. CASE Flush
  BY <1>8, FlushStep
<1>9. CASE Params
  BY <1>9, ParamsStep
<1>10. CASE Close
  BY <1>10, CloseStep
<1>11. CASE \/ \E n \in Bytes : gzwrite(n) \/ gzprintf(n)
            \/ \E f \in {"NO", "SYNC", "FINISH"} : gzflush(f)
            \/ \E level \in {0, 1} : gzsetparams(level)
            \/ gzputc \/ gzclose_w
  BY <1>11, BeginsStep, SMTT(60) DEF Wrote
<1> QED BY <1>1, <1>2, <1>3, <1>4, <1>5, <1>6, <1>7, <1>8, <1>9, <1>10, <1>11 DEF WNext

(* What has come between is not forgotten. *)
LEMMA MarredStays ==
  ASSUME WNext
  PROVE  marred \subseteq marred'
BY DEF WNext, gzwrite, gzprintf, gzflush, gzsetparams, gzseek_w, gzputc, gzclose_w, gzclearerr_w, Zero,
       WriteSmall, WriteLarge, Putc, Printf, Flush, Params, Close, WBegin, Comp, Plain

(* After a write has failed only gzclearerr_w() and gzclose_w() do anything, and writing goes on. *)
LEMMA FellStep ==
  ASSUME WFell, WNext
  PROVE  "resumed" \in marred'
<1>1. CASE wcall.op = "closed" /\ ~wcall.over /\ zeroing.left = 0
  BY <1>1 DEF WNext, gzwrite, gzprintf, gzflush, gzsetparams, gzseek_w, gzputc, gzclose_w, gzclearerr_w, WReady,
       Zero, WriteSmall, WriteLarge, Putc, Printf, Flush, Params, Close, Ready2
<1>2. CASE wcall.over /\ w.err # "OK"
  <2>1. gzclose_w \/ gzclearerr_w \/ Close
    BY <1>2 DEF WNext, gzwrite, gzprintf, gzflush, gzsetparams, gzseek_w, gzputc, WReady,
       Zero, WriteSmall, WriteLarge, Putc, Printf, Flush, Params, Ready2
  <2>2. "resumed" \in Resumes(w)
    BY <1>2 DEF Resumes
  <2> QED BY <2>1, <2>2 DEF gzclose_w, gzclearerr_w, Close, WBegin
<1> QED BY <1>1, <1>2 DEF WFell

---------------------------------------------------------------------------

(* Until data are marred the file and the buffers hold what was given, and until writing goes
   on after an error the file is a part of it. *)
WritesInv ==
  /\ mode \in {"READ", "WRITE"}
  /\ mode = "READ" => wcall = NoWrite
  /\ mode = "WRITE" /\ marred \subseteq {"write"} => Wrote

LEMMA WopenHolds == Holds(wopen, <<>>, <<>>)
<1>1. WriterOK(wopen) /\ ~wopen.finishing /\ wopen.err = "OK" /\ wopen.held = <<>> /\ wopen.in = <<>>
      /\ wopen.out = <<>> /\ wopen.pend = <<>> /\ ~wopen.begun
  BY DEF wopen, WriterOK, Fields
<1>2. PICK z \in Seq(Unit) : z = <<>> /\ z \o z = z
  <2>1. <<>> \in Seq(Unit) /\ <<>> \o <<>> = <<>>
    OBVIOUS
  <2> QED BY <2>1, Zenon
<1>3. DecodesTo(z, FALSE, z)
  BY <1>2, DecodedNone DEF DecodesTo, Start
<1>4. Is(z, z)
  BY DEF Is
<1>5. DecodesTo(z \o (wopen.out \o wopen.pend), wopen.begun, z) /\ Is(z \o (wopen.held \o wopen.in), z)
  <2>1. /\ wopen.out = z /\ wopen.pend = z /\ wopen.held = z /\ wopen.in = z /\ ~wopen.begun
        /\ wopen.begun = FALSE
    BY <1>1, <1>2 DEF wopen
  <2> QED BY <1>2, <1>3, <1>4, <2>1, Zenon
<1>6. Holds(wopen, z, z)
  BY <1>1, <1>5 DEF Holds
<1> QED BY <1>2, <1>6

LEMMA WritesInit ==
  ASSUME Init
  PROVE  WritesInv
<1>1. w = wopen /\ wcall = NoWrite /\ zeroing = NoZero /\ given = <<>> /\ mode \in {"READ", "WRITE"}
      /\ marred = {}
  BY DEF Init, WInit
<1>2. CASE mode = "WRITE"
  <2>1. file = <<>>
    BY <1>2 DEF Init
  <2>2. CallOK(wcall) /\ wcall.op = "none"
    BY <1>1 DEF CallOK, NoWrite, Flushes
  <2>3. ZeroOK(zeroing) /\ zeroing.left = 0
    BY <1>1 DEF ZeroOK, NoZero
  <2>4. Holds(w, file, given) /\ given \in Seq(Int)
    BY <1>1, <2>1, WopenHolds
  <2> QED BY <1>1, <1>2, <2>2, <2>3, <2>4 DEF WritesInv, Wrote, WOK, WritesOK
<1>3. CASE mode = "READ"
  BY <1>1, <1>3 DEF WritesInv
<1> QED BY <1>1, <1>2, <1>3

LEMMA WritesNext ==
  ASSUME WritesInv, [Next]_vars
  PROVE  WritesInv'
<1>1. CASE UNCHANGED <<file, mode>> /\ UNCHANGED wvars
  BY <1>1 DEF WritesInv, Wrote, WOK, WFell, wvars
<1>2. CASE mode = "READ" /\ RNext /\ UNCHANGED wvars /\ UNCHANGED mode
  BY <1>2 DEF WritesInv, wvars
<1>3. CASE mode = "WRITE" /\ WNext /\ UNCHANGED mode
  <2>1. CASE ~(marred' \subseteq {"write"})
    BY <1>3, <2>1 DEF WritesInv
  <2>2. CASE marred' \subseteq {"write"}
    <3>1. Wrote
      BY <1>3, <2>2, MarredStays DEF WritesInv
    <3>2. ~WFell
      BY <1>3, <2>2, FellStep
    <3>3. Wrote'
      BY <1>3, <2>2, <3>1, <3>2, WriteStep DEF Wrote
    <3> QED BY <1>3, <3>3 DEF WritesInv
  <2> QED BY <2>1, <2>2
<1>4. CASE Reopen
  BY <1>4 DEF Reopen, WritesInv
<1> QED BY <1>1, <1>2, <1>3, <1>4 DEF Next, vars, wvars

LEMMA WritesGiven ==
  ASSUME WritesInv
  PROVE  FlushedIsGiven
<1> SUFFICES ASSUME marred = {}, wcall.op = "closed" \/ (wcall.op = "flush" /\ wcall.over /\ wcall.flush # "NO")
             PROVE  Decoded(file).data = given /\ (wcall.op = "closed" => Decoded(file).how = "look")
  BY DEF FlushedIsGiven, WrittenBut
<1>1. WOK
  BY DEF WritesInv, Wrote, NoWrite
<1>2. Empty(w) /\ Holds(w, file, given) /\ (wcall.op = "closed" => ~w.begun)
  BY <1>1 DEF WOK, WritesOK
<1>3. PICK d \in Seq(Unit) : DecodesTo(file \o (w.out \o w.pend), w.begun, d) /\ Is(d \o (w.held \o w.in), given)
  BY <1>2 DEF Holds
<1>4. <<>> \o <<>> = <<>> /\ file \o <<>> = file /\ d \o <<>> = d
  BY <1>2, EmptyConcat DEF Holds
<1>5. DecodesTo(file, w.begun, d) /\ d = given
  BY <1>2, <1>3, <1>4 DEF Empty, Is
<1> QED BY <1>2, <1>5 DEF DecodesTo

LEMMA WritesPrefix ==
  ASSUME WritesInv
  PROVE  FileIsPrefix
<1> SUFFICES ASSUME mode = "WRITE", marred \subseteq {"write"}
             PROVE  Decoded(file).data = Take(given, Len(Decoded(file).data))
  BY DEF FileIsPrefix
<1>1. FilePart(file, given) /\ given \in Seq(Int)
  <2>1. CASE WFell
    BY <2>1 DEF WFell
  <2>2. CASE WOK
    <3>1. Holds(w, file, given) /\ given \in Seq(Int) /\ 0 \in Nat
      BY <2>2 DEF WOK, WritesOK
    <3> QED BY <3>1, HoldsPart
  <2> QED BY <2>1, <2>2 DEF WritesInv, Wrote
<1>2. PICK d \in Seq(Int) : d = Decoded(file).data /\ Begins(d, given)
  BY <1>1, KnownAll, UnitsInts DEF FilePart
<1>3. PICK n \in Nat : n = Len(d) /\ n <= Len(given)
  BY <1>2 DEF Begins
<1>4. PICK t \in Seq(Int) : t = Take(given, n) /\ Len(t) = n /\ \A i \in 1 .. n : t[i] = given[i]
  BY <1>1, <1>3, TakeAt
<1>5. \A i \in 1 .. Len(d) : d[i] = t[i]
  BY <1>2, <1>3, <1>4 DEF Begins
<1>6. d = t
  BY <1>3, <1>4, <1>5, SameSeq
<1> QED BY <1>2, <1>3, <1>4, <1>6

(* What is written, whatever the buffers' size, the calls and the points at which deflate()
   hands bytes over: the file holds what was given, byte for byte and zeros for the gaps, once
   gzflush() or gzclose() has succeeded, unless a write failed, gz_zero() compressed memory that
   nobody has written, or deflateParams() lost what it held back. *)
THEOREM WrittenIsGiven == Spec => []FlushedIsGiven
<1>1. Init => WritesInv
  BY WritesInit
<1>2. WritesInv /\ [Next]_vars => WritesInv'
  BY WritesNext
<1>3. WritesInv => FlushedIsGiven
  BY WritesGiven
<1> QED BY <1>1, <1>2, <1>3, PTL DEF Spec

(* At every moment, and after a write that failed or took a part of the buffer, what can be
   read from the file is the beginning of what was given (gz_comp()), until writing goes on
   after an error or data were lost as above. *)
THEOREM WrittenIsPrefix == Spec => []FileIsPrefix
<1>1. Init => WritesInv
  BY WritesInit
<1>2. WritesInv /\ [Next]_vars => WritesInv'
  BY WritesNext
<1>3. WritesInv => FileIsPrefix
  BY WritesPrefix
<1> QED BY <1>1, <1>2, <1>3, PTL DEF Spec
---------------------------------------------------------------------------
(* What a file holds *)

LEMMA ContentType ==
  ASSUME NEW f \in Seq(Unit)
  PROVE  Content(f) \in Seq(Unit) /\ Begins(Decoded(f).data, Content(f))
<1>1. PICK d \in Seq(Unit) : d = Decoded(f).data
  BY KnownAll
<1>2. ID1 \in Unit
  BY DEF ID1, Unit
<1>3. Append(d, ID1) \in Seq(Unit) /\ Begins(d, Append(d, ID1)) /\ Begins(d, d)
  BY <1>2, AppendAt, EmptySeq DEF Begins
<1>4. Content(f) = Append(d, ID1) \/ Content(f) = d
  BY <1>1 DEF Content
<1> QED BY <1>1, <1>3, <1>4

(* What is decoded is what the file holds. *)
LEMMA DataIsContent ==
  ASSUME NEW f \in Seq(Unit), NEW n \in Nat, n <= Len(f)
  PROVE  Begins(Known(f, n).data, Content(f))
<1>1. Len(f) \in Nat /\ Begins(Known(f, n).data, Known(f, Len(f)).data)
  BY DataStays
<1>2. Known(f, Len(f)) = Decoded(f) /\ Decoded(f).data \in Seq(Unit) /\ Known(f, n).data \in Seq(Unit)
  BY KnownAll, KnownType
<1> QED BY <1>1, <1>2, ContentType, BeginsTrans

(* From unit r on a file is copied as it is. *)
RawFrom(f, r) ==
  /\ r \in Nat /\ r < Len(f) /\ Known(f, r).how = "look"
  /\ f[r + 1] # ID1 \/ r + 1 = Len(f) \/ f[r + 2] # ID2

Raws(f, r, m) ==
  /\ m = r => Known(f, m).how = "look"
  /\ m = r + 1 => Known(f, m).how = "raw" \/ (Known(f, m).how = "id1" /\ f[r + 1] = ID1)
  /\ m > r + 1 => Known(f, m).how = "raw"

LEMMA AppendOne ==
  ASSUME NEW T, NEW s \in Seq(T), NEW x \in T, NEW y \in T
  PROVE  s \o <<x>> = Append(s, x) /\ s \o <<x, y>> = Append(Append(s, x), y)
OBVIOUS

LEMMA ContentNext ==
  ASSUME NEW f \in Seq(Unit), NEW m \in Nat, m < Len(f), NEW h, h = After(Known(f, m).how, f[m + 1]),
         \/ Known(f, m).how = "look" /\ (h = "raw" \/ (h = "id1" /\ f[m + 1] = ID1))
         \/ Known(f, m).how = "id1" /\ h = "raw"
         \/ Known(f, m).how = "raw" /\ h = "raw"
  PROVE  Content(Take(f, m + 1)) = Append(Content(Take(f, m)), f[m + 1]) /\ Known(f, m + 1).how = h
<1>1. Len(f) \in Nat /\ m + 1 \in Nat /\ m <= Len(f)
  OBVIOUS
<1>2. PICK u \in Unit : u = f[m + 1]
  BY KnownNext
<1>3. PICK k \in Knowns : k = Known(f, m)
  BY <1>1, KnownType
<1>4. PICK d \in Seq(Unit) : d = k.data
  BY <1>1, <1>3, KnownType
<1>5. Known(f, m + 1).how = h /\ Known(f, m + 1).data = d \o Adds(k, u)
  <2>1. Known(f, m + 1) = Decode(k, u)
    BY <1>2, <1>3, KnownNext
  <2> QED BY <1>2, <1>3, <1>4, <2>1, DecodeAdds, ZenonT(60)
<1>6. Content(Take(f, m + 1)) = (IF h = "id1" THEN Append(d \o Adds(k, u), ID1) ELSE d \o Adds(k, u))
  BY <1>5 DEF Content, Known
<1>7. Content(Take(f, m)) = (IF k.how = "id1" THEN Append(d, ID1) ELSE d)
  BY <1>3, <1>4 DEF Content, Known
<1>8. h = After(k.how, u)
  BY <1>2, <1>3
<1>9. ID1 \in Unit
  BY DEF ID1, Unit
<1>10. d \o <<u>> = Append(d, u) /\ d \o <<ID1, u>> = Append(Append(d, ID1), u) /\ d \o <<>> = d
  BY <1>9, AppendOne, EmptyConcat
<1>11. CASE k.how = "look" /\ h = "raw"
  <2>1. Adds(k, u) = <<u>>
    BY <1>8, <1>11 DEF Adds
  <2> QED BY <1>2, <1>5, <1>6, <1>7, <1>10, <1>11, <2>1
<1>12. CASE k.how = "look" /\ h = "id1" /\ u = ID1
  <2>1. Adds(k, u) = <<>>
    BY <1>8, <1>12 DEF Adds
  <2> QED BY <1>2, <1>5, <1>6, <1>7, <1>10, <1>12, <2>1
<1>13. CASE k.how = "id1" /\ h = "raw"
  <2>1. Adds(k, u) = <<ID1, u>>
    BY <1>8, <1>13 DEF Adds
  <2> QED BY <1>2, <1>5, <1>6, <1>7, <1>10, <1>13, <2>1
<1>14. CASE k.how = "raw" /\ h = "raw"
  <2>1. Adds(k, u) = <<u>>
    BY <1>8, <1>14 DEF Adds
  <2> QED BY <1>2, <1>5, <1>6, <1>7, <1>10, <1>14, <2>1
<1> QED BY <1>2, <1>3, <1>11, <1>12, <1>13, <1>14

LEMMA RawNext ==
  ASSUME NEW f \in Seq(Unit), NEW r, RawFrom(f, r), NEW m \in Nat, r <= m, m < Len(f), Raws(f, r, m)
  PROVE  Raws(f, r, m + 1) /\ Content(Take(f, m + 1)) = Append(Content(Take(f, m)), f[m + 1])
<1>1. r \in Nat /\ Len(f) \in Nat /\ m + 1 \in Nat
  BY DEF RawFrom
<1>2. PICK h : h = After(Known(f, m).how, f[m + 1])
  OBVIOUS
<1>3. CASE m = r
  <2>1. Known(f, m).how = "look"
    BY <1>3 DEF Raws
  <2>2. h = IF f[m + 1] = ID1 THEN "id1" ELSE "raw"
    BY <1>2, <2>1 DEF After
  <2>3. Content(Take(f, m + 1)) = Append(Content(Take(f, m)), f[m + 1]) /\ Known(f, m + 1).how = h
    BY <1>2, <2>1, <2>2, ContentNext
  <2>4. Raws(f, r, m + 1)
    BY <1>1, <1>3, <2>2, <2>3 DEF Raws
  <2> QED BY <2>3, <2>4
<1>4. CASE m = r + 1 /\ Known(f, m).how = "id1" /\ f[r + 1] = ID1
  <2>1. f[m + 1] # ID2
    <3>1. r + 1 # Len(f) /\ r + 2 = m + 1
      BY <1>1, <1>4
    <3> QED BY <1>4, <3>1 DEF RawFrom
  <2>2. h = "raw"
    BY <1>2, <1>4, <2>1 DEF After
  <2>3. Content(Take(f, m + 1)) = Append(Content(Take(f, m)), f[m + 1]) /\ Known(f, m + 1).how = h
    BY <1>2, <1>4, <2>2, ContentNext
  <2>4. Raws(f, r, m + 1)
    BY <1>1, <1>4, <2>2, <2>3 DEF Raws
  <2> QED BY <2>3, <2>4
<1>5. CASE m > r /\ Known(f, m).how = "raw"
  <2>2. h = "raw"
    BY <1>2, <1>5 DEF After
  <2>3. Content(Take(f, m + 1)) = Append(Content(Take(f, m)), f[m + 1]) /\ Known(f, m + 1).how = h
    BY <1>2, <1>5, <2>2, ContentNext
  <2>4. Raws(f, r, m + 1)
    BY <1>1, <1>5, <2>2, <2>3 DEF Raws
  <2> QED BY <2>3, <2>4
<1> QED BY <1>1, <1>3, <1>4, <1>5 DEF Raws

(* The content c of the first m units of a file that is copied from unit r on, where it
   is data that the file holds before. *)
RawHolds(f, r, m, d, c) ==
  /\ Len(c) = Len(d) + (m - r)
  /\ \A i \in 1 .. m - r : c[Len(d) + i] = f[r + i]

LEMMA RawContent ==
  ASSUME NEW f \in Seq(Unit), NEW r, RawFrom(f, r), NEW m \in Nat, r <= m, m <= Len(f)
  PROVE  RawHolds(f, r, m, Known(f, r).data, Content(Take(f, m)))
<1> DEFINE d == Known(f, r).data
           P(i) == Raws(f, r, i) /\ RawHolds(f, r, i, d, Content(Take(f, i)))
           C == {i \in r .. m : ~P(i)}
<1>1. r \in Nat /\ Len(f) \in Nat /\ r <= Len(f) /\ d \in Seq(Unit) /\ Known(f, r).how = "look"
  BY KnownType DEF RawFrom
<1>2. P(r)
  <2>1. Content(Take(f, r)) = d
    BY <1>1 DEF Content, Known
  <2>2. Raws(f, r, r)
    BY <1>1 DEF Raws
  <2>3. Len(d) \in Nat /\ r - r = 0
    BY <1>1
  <2> HIDE DEF d
  <2>4. RawHolds(f, r, r, d, d)
    BY <2>3 DEF RawHolds
  <2> QED BY <2>1, <2>2, <2>4
<1>3. ASSUME NEW i \in r .. m, i < m, P(i) PROVE P(i + 1)
  <2>1. i \in Nat /\ r <= i /\ i < Len(f) /\ i + 1 \in Nat
    BY <1>1, <1>3
  <2>2. PICK c \in Seq(Unit) : c = Content(Take(f, i))
    <3>1. Take(f, i) \in Seq(Unit)
      BY <2>1, TakeAt
    <3> QED BY <3>1, ContentType
  <2>3. PICK u \in Unit : u = f[i + 1]
    BY <2>1, KnownNext
  <2>4. PICK e \in Seq(Unit) : e = Append(c, u) /\ Len(e) = Len(c) + 1 /\ (\A j \in 1 .. Len(c) : e[j] = c[j]) /\ e[Len(c) + 1] = u
    BY AppendAt, ZenonT(60)
  <2>5. Raws(f, r, i + 1) /\ Content(Take(f, i + 1)) = e
    BY <1>3, <2>1, <2>2, <2>3, <2>4, RawNext
  <2>6. RawHolds(f, r, i, d, c) /\ Len(d) \in Nat
    BY <1>1, <1>3, <2>2
  <2> HIDE DEF d
  <2>7. Len(e) = Len(d) + ((i + 1) - r)
    BY <1>1, <2>1, <2>4, <2>6, SMTT(60) DEF RawHolds
  <2>8. ASSUME NEW j \in 1 .. (i + 1) - r PROVE e[Len(d) + j] = f[r + j]
    <3>1. CASE j = (i + 1) - r
      <4>1. Len(d) + j = Len(c) + 1 /\ r + j = i + 1
        BY <1>1, <2>1, <2>6, <3>1, SMTT(60) DEF RawHolds
      <4> QED BY <2>3, <2>4, <4>1
    <3>2. CASE j # (i + 1) - r
      <4>1. j \in 1 .. i - r /\ Len(c) = Len(d) + (i - r)
        BY <1>1, <2>1, <2>6, <3>2 DEF RawHolds
      <4>2. Len(d) + j \in 1 .. Len(c)
        BY <1>1, <2>1, <2>6, <4>1
      <4> QED BY <2>4, <2>6, <4>1, <4>2 DEF RawHolds
    <3> QED BY <3>1, <3>2
  <2>9. RawHolds(f, r, i + 1, d, e)
    BY <2>7, <2>8 DEF RawHolds
  <2> QED BY <2>5, <2>9
<1>4. CASE C # {}
  <2>1. C \subseteq Nat
    BY <1>1
  <2> HIDE DEF P
  <2>2. PICK i \in C : \A j \in C : i <= j
    BY <1>4, <2>1, SmallestIn
  <2>3. i \in r .. m /\ ~P(i) /\ i # r
    BY <1>2
  <2>4. i - 1 \in r .. m /\ i - 1 < m /\ (i - 1) + 1 = i
    BY <1>1, <2>3
  <2>5. P(i - 1)
    BY <1>1, <2>2, <2>4
  <2>6. P((i - 1) + 1)
    BY <1>3, <2>4, <2>5
  <2> QED BY <2>3, <2>4, <2>6
<1>5. CASE C = {}
  <2>1. m \in r .. m
    BY <1>1
  <2> QED BY <1>5, <2>1
<1> QED BY <1>4, <1>5

(* The file grows. *)
LEMMA KnownGrows ==
  ASSUME NEW f \in Seq(Unit), NEW h \in Seq(Unit), Begins(f, h), NEW n \in Nat, n <= Len(f)
  PROVE  Known(h, n) = Known(f, n)
<1>1. Len(f) \in Nat /\ Len(h) \in Nat /\ n <= Len(h)
  BY DEF Begins
<1>2. PICK p \in Seq(Unit) : p = Take(f, n) /\ Len(p) = n /\ \A i \in 1 .. n : p[i] = f[i]
  BY TakeAt
<1>3. PICK q \in Seq(Unit) : q = Take(h, n) /\ Len(q) = n /\ \A i \in 1 .. n : q[i] = h[i]
  BY <1>1, TakeAt
<1>4. \A i \in 1 .. n : p[i] = q[i]
  BY <1>1, <1>2, <1>3 DEF Begins
<1>5. p = q
  BY <1>2, <1>3, <1>4, SameSeq
<1> QED BY <1>2, <1>3, <1>5 DEF Known

LEMMA ContentGrows ==
  ASSUME NEW f \in Seq(Unit), NEW h \in Seq(Unit), Begins(f, h), Decoded(f).how # "id1"
  PROVE  Begins(Content(f), Content(h))
<1>1. Content(f) = Decoded(f).data /\ Known(f, Len(f)) = Decoded(f) /\ Len(f) \in Nat /\ Len(f) <= Len(h)
  BY KnownAll DEF Content, Begins
<1>2. Known(h, Len(f)) = Decoded(f)
  BY <1>1, KnownGrows
<1>3. Begins(Known(h, Len(f)).data, Content(h))
  BY <1>1, DataIsContent
<1> QED BY <1>1, <1>2, <1>3

LEMMA RawGrows ==
  ASSUME NEW f \in Seq(Unit), NEW h \in Seq(Unit), Begins(f, h), Decoded(f).how # "id1", NEW r, RawFrom(f, r)
  PROVE  RawFrom(h, r)
<1>1. r \in Nat /\ Len(f) \in Nat /\ Len(h) \in Nat /\ r < Len(f) /\ Len(f) <= Len(h) /\ r <= Len(f)
  BY DEF RawFrom, Begins
<1>2. Known(h, r) = Known(f, r) /\ h[r + 1] = f[r + 1]
  BY <1>1, KnownGrows DEF Begins
<1>3. CASE f[r + 1] # ID1
  BY <1>1, <1>2, <1>3 DEF RawFrom
<1>4. CASE f[r + 1] = ID1 /\ r + 1 = Len(f)
  <2>2. Known(f, r + 1).how = After("look", f[r + 1])
    <3>1. Known(f, r) \in Knowns /\ Known(f, r).how = "look"
      BY <1>1, KnownType DEF RawFrom
    <3>2. f[r + 1] \in Unit /\ Known(f, r + 1) = Decode(Known(f, r), f[r + 1])
      BY <1>1, KnownNext
    <3> QED BY <3>1, <3>2, DecodeAdds
  <2>3. Decoded(f).how = "id1"
    BY <1>4, <2>2, KnownAll DEF After
  <2> QED BY <2>3
<1>5. CASE f[r + 2] # ID2 /\ r + 1 # Len(f)
  <2>1. h[r + 2] = f[r + 2]
    BY <1>1, <1>5 DEF Begins
  <2> QED BY <1>1, <1>2, <1>5, <2>1 DEF RawFrom
<1> QED BY <1>3, <1>4, <1>5 DEF RawFrom

---------------------------------------------------------------------------
(* What has been read *)

(* s is k characters that were pushed back and then what c holds up to e. *)
Segs(s, c, e, k) ==
  /\ \A i \in 1 .. k : s[i] = PUSHED
  /\ k < Len(s) => /\ e <= Len(c) /\ Len(s) - k <= e
                   /\ \A i \in k + 1 .. Len(s) : s[i] = c[(e - Len(s)) + i]
Seg(s, c, e) == \E k \in 0 .. Len(s) : Segs(s, c, e, k)

(* o is what c holds after e. *)
Gives(o, c, e) == \A i \in 1 .. Len(o) : e + i <= Len(c) /\ o[i] = c[e + i]

LEMMA SegDrop ==
  ASSUME NEW s \in Seq(Int), NEW c \in Seq(Unit), NEW e \in Int, NEW n \in Nat, n <= Len(s), Seg(s, c, e)
  PROVE  Seg(Drop(s, n), c, e)
<1>1. PICK k \in 0 .. Len(s) : Segs(s, c, e, k)
  BY DEF Seg
<1>2. PICK t \in Seq(Int) : t = Drop(s, n)
  BY DropAt
<1>3. Len(t) = Len(s) - n /\ \A i \in 1 .. Len(s) - n : t[i] = s[n + i]
  BY <1>2, DropAt
<1>4. Len(s) \in Nat /\ k \in Nat /\ k <= Len(s) /\ Len(t) \in Nat
  OBVIOUS
<1>5. CASE k >= n
  <2>1. PICK j \in Nat : j = k - n
    BY <1>4, <1>5
  <2>2. j \in 0 .. Len(t)
    BY <1>3, <1>4, <2>1
  <2>3. ASSUME NEW i \in 1 .. j PROVE t[i] = PUSHED
    <3>1. n + i \in 1 .. k /\ i \in 1 .. Len(s) - n
      BY <1>4, <2>1
    <3> QED BY <1>1, <1>3, <3>1 DEF Segs
  <2>4. ASSUME j < Len(t)
        PROVE  /\ e <= Len(c) /\ Len(t) - j <= e
               /\ \A i \in j + 1 .. Len(t) : t[i] = c[(e - Len(t)) + i]
    <3>1. k < Len(s)
      BY <1>3, <1>4, <2>1, <2>4
    <3>2. /\ e <= Len(c) /\ Len(s) - k <= e
          /\ \A i \in k + 1 .. Len(s) : s[i] = c[(e - Len(s)) + i]
      BY <1>1, <3>1 DEF Segs
    <3>3. ASSUME NEW i \in j + 1 .. Len(t) PROVE t[i] = c[(e - Len(t)) + i]
      <4>1. n + i \in k + 1 .. Len(s) /\ i \in 1 .. Len(s) - n /\ (e - Len(s)) + (n + i) = (e - Len(t)) + i
        BY <1>3, <1>4, <2>1
      <4>2. t[i] = s[n + i] /\ s[n + i] = c[(e - Len(s)) + (n + i)]
        BY <1>3, <3>2, <4>1
      <4> QED BY <4>1, <4>2
    <3>4. Len(t) - j <= e
      BY <1>3, <1>4, <2>1, <3>2
    <3> QED BY <3>2, <3>3, <3>4
  <2>5. Segs(t, c, e, j)
    BY <2>3, <2>4 DEF Segs
  <2> QED BY <1>2, <2>2, <2>5 DEF Seg
<1>6. CASE k < n
  <2>4. ASSUME 0 < Len(t)
        PROVE  /\ e <= Len(c) /\ Len(t) - 0 <= e
               /\ \A i \in 0 + 1 .. Len(t) : t[i] = c[(e - Len(t)) + i]
    <3>1. k < Len(s)
      BY <1>3, <1>4, <1>6, <2>4
    <3>2. /\ e <= Len(c) /\ Len(s) - k <= e
          /\ \A i \in k + 1 .. Len(s) : s[i] = c[(e - Len(s)) + i]
      BY <1>1, <3>1 DEF Segs
    <3>3. ASSUME NEW i \in 0 + 1 .. Len(t) PROVE t[i] = c[(e - Len(t)) + i]
      <4>1. n + i \in k + 1 .. Len(s) /\ i \in 1 .. Len(s) - n /\ (e - Len(s)) + (n + i) = (e - Len(t)) + i
        BY <1>3, <1>4, <1>6
      <4>2. t[i] = s[n + i] /\ s[n + i] = c[(e - Len(s)) + (n + i)]
        BY <1>3, <3>2, <4>1
      <4> QED BY <4>1, <4>2
    <3>4. Len(t) - 0 <= e
      BY <1>3, <1>4, <1>6, <3>2
    <3> QED BY <3>2, <3>3, <3>4
  <2>5. Segs(t, c, e, 0) /\ 0 \in 0 .. Len(t)
    BY <1>4, <2>4 DEF Segs
  <2> QED BY <1>2, <2>5 DEF Seg
<1> QED BY <1>4, <1>5, <1>6

LEMMA SegMore ==
  ASSUME NEW s \in Seq(Int), NEW c \in Seq(Unit), NEW e \in Nat, NEW o \in Seq(Int), Seg(s, c, e), Gives(o, c, e)
  PROVE  Seg(s \o o, c, e + Len(o))
<1>1. PICK k \in 0 .. Len(s) : Segs(s, c, e, k)
  BY DEF Seg
<1>2. PICK t \in Seq(Int) : t = s \o o
  BY ConcatAt
<1>3. /\ Len(t) = Len(s) + Len(o) /\ \A i \in 1 .. Len(s) : t[i] = s[i]
      /\ \A i \in Len(s) + 1 .. Len(s) + Len(o) : t[i] = o[i - Len(s)]
  BY <1>2, ConcatAt
<1>4. Len(s) \in Nat /\ Len(o) \in Nat /\ k \in Nat /\ k <= Len(s) /\ Len(c) \in Nat
  OBVIOUS
<1>5. k \in 0 .. Len(t) /\ \A i \in 1 .. k : t[i] = PUSHED
  <2>1. k \in 0 .. Len(t)
    BY <1>3, <1>4
  <2>2. ASSUME NEW i \in 1 .. k PROVE t[i] = PUSHED
    <3>1. i \in 1 .. Len(s)
      BY <1>4
    <3> QED BY <1>1, <1>3, <3>1 DEF Segs
  <2> QED BY <2>1, <2>2
<1>6. PICK a \in Nat : a = e + Len(o)
  BY <1>4
<1>7. ASSUME k < Len(t)
      PROVE  /\ a <= Len(c) /\ Len(t) - k <= a
             /\ \A i \in k + 1 .. Len(t) : t[i] = c[(a - Len(t)) + i]
  <2>1. a <= Len(c)
    <3>1. CASE Len(o) = 0
      BY <1>1, <1>3, <1>4, <1>6, <1>7, <3>1 DEF Segs
    <3>2. CASE Len(o) > 0
      <4>1. Len(o) \in 1 .. Len(o)
        BY <1>4, <3>2
      <4> QED BY <1>6, <4>1 DEF Gives
    <3> QED BY <1>4, <3>1, <3>2
  <2>2. Len(t) - k <= a
    <3>1. CASE k < Len(s)
      <4>1. Len(s) - k <= e
        BY <1>1, <3>1 DEF Segs
      <4> QED BY <1>3, <1>4, <1>6, <4>1
    <3>2. CASE k = Len(s)
      BY <1>3, <1>4, <1>6, <3>2
    <3> QED BY <1>4, <3>1, <3>2
  <2>3. ASSUME NEW i \in k + 1 .. Len(t) PROVE t[i] = c[(a - Len(t)) + i]
    <3>1. i \in Int /\ i >= k + 1 /\ i <= Len(s) + Len(o) /\ (a - Len(t)) + i = (e - Len(s)) + i
      BY <1>3, <1>4, <1>6
    <3>2. CASE i <= Len(s)
      <4>1. i \in k + 1 .. Len(s) /\ i \in 1 .. Len(s) /\ k < Len(s)
        BY <1>4, <3>1, <3>2
      <4>2. s[i] = c[(e - Len(s)) + i]
        BY <1>1, <4>1 DEF Segs
      <4> QED BY <1>3, <3>1, <4>1, <4>2
    <3>3. CASE i > Len(s)
      <4>0. i - Len(s) \in 1 .. Len(o)
        BY <1>4, <3>1, <3>3
      <4>1. PICK j \in 1 .. Len(o) : j = i - Len(s)
        BY <4>0
      <4>2. i \in Len(s) + 1 .. Len(s) + Len(o) /\ (e - Len(s)) + i = e + j
        BY <1>4, <3>1, <3>3, <4>1
      <4>3. o[j] = c[e + j]
        BY DEF Gives
      <4>4. t[i] = o[j]
        BY <1>3, <4>1, <4>2
      <4> QED BY <3>1, <4>2, <4>3, <4>4
    <3> QED BY <1>4, <3>1, <3>2, <3>3
  <2> QED BY <2>1, <2>2, <2>3
<1>8. Segs(t, c, a, k)
  BY <1>5, <1>7 DEF Segs
<1> QED BY <1>2, <1>5, <1>6, <1>8 DEF Seg

LEMMA SegGrow ==
  ASSUME NEW s \in Seq(Int), NEW c \in Seq(Unit), NEW b \in Seq(Unit), Begins(c, b), NEW e \in Int, Seg(s, c, e)
  PROVE  Seg(s, b, e)
<1>1. PICK k \in 0 .. Len(s) : Segs(s, c, e, k)
  BY DEF Seg
<1>2. Len(s) \in Nat /\ Len(c) \in Nat /\ Len(b) \in Nat /\ Len(c) <= Len(b)
  BY DEF Begins
<1>3. ASSUME k < Len(s)
      PROVE  /\ e <= Len(b) /\ Len(s) - k <= e
             /\ \A i \in k + 1 .. Len(s) : s[i] = b[(e - Len(s)) + i]
  <2>1. /\ e <= Len(c) /\ Len(s) - k <= e
        /\ \A i \in k + 1 .. Len(s) : s[i] = c[(e - Len(s)) + i]
    BY <1>1, <1>3 DEF Segs
  <2>2. ASSUME NEW i \in k + 1 .. Len(s) PROVE s[i] = b[(e - Len(s)) + i]
    <3>1. PICK j \in 1 .. Len(c) : j = (e - Len(s)) + i
      BY <1>2, <2>1
    <3>2. b[j] = c[j]
      BY DEF Begins
    <3> QED BY <2>1, <3>1, <3>2
  <2>3. e <= Len(b)
    BY <1>2, <2>1
  <2> QED BY <2>1, <2>2, <2>3
<1>4. Segs(s, b, e, k)
  BY <1>1, <1>3 DEF Segs
<1> QED BY <1>4 DEF Seg

LEMMA SegPush ==
  ASSUME NEW s \in Seq(Int), NEW c \in Seq(Unit), NEW e \in Int, Seg(s, c, e)
  PROVE  Seg(<<PUSHED>> \o s, c, e) /\ <<PUSHED>> \o s \in Seq(Int) /\ Len(<<PUSHED>> \o s) = Len(s) + 1
<1>1. PICK k \in 0 .. Len(s) : Segs(s, c, e, k)
  BY DEF Seg
<1>2. PICK p \in Seq(Int) : p = <<PUSHED>> /\ Len(p) = 1 /\ p[1] = PUSHED
  <2>1. <<PUSHED>> \in Seq(Int)
    BY DEF PUSHED
  <2> QED BY <2>1
<1>3. PICK t \in Seq(Int) : t = p \o s
  BY ConcatAt
<1>4. /\ Len(t) = 1 + Len(s) /\ t[1] = PUSHED
      /\ \A i \in 2 .. 1 + Len(s) : t[i] = s[i - 1]
  <2>1. /\ Len(t) = Len(p) + Len(s) /\ \A i \in 1 .. Len(p) : t[i] = p[i]
        /\ \A i \in Len(p) + 1 .. Len(p) + Len(s) : t[i] = s[i - Len(p)]
    BY <1>3, ConcatAt
  <2> QED BY <1>2, <2>1
<1>5. Len(s) \in Nat /\ k \in Nat /\ k <= Len(s) /\ k + 1 \in 0 .. Len(t)
  BY <1>4
<1>6. ASSUME NEW i \in 1 .. k + 1 PROVE t[i] = PUSHED
  <2>1. CASE i = 1
    BY <1>4, <2>1
  <2>2. CASE i # 1
    <3>1. i \in 2 .. 1 + Len(s) /\ i - 1 \in 1 .. k
      BY <1>5, <2>2
    <3> QED BY <1>1, <1>4, <3>1 DEF Segs
  <2> QED BY <2>1, <2>2
<1>7. ASSUME k + 1 < Len(t)
      PROVE  /\ e <= Len(c) /\ Len(t) - (k + 1) <= e
             /\ \A i \in (k + 1) + 1 .. Len(t) : t[i] = c[(e - Len(t)) + i]
  <2>1. k < Len(s) /\ Len(t) - (k + 1) = Len(s) - k
    BY <1>4, <1>5, <1>7
  <2>2. /\ e <= Len(c) /\ Len(s) - k <= e
        /\ \A i \in k + 1 .. Len(s) : s[i] = c[(e - Len(s)) + i]
    BY <1>1, <2>1 DEF Segs
  <2>3. ASSUME NEW i \in (k + 1) + 1 .. Len(t) PROVE t[i] = c[(e - Len(t)) + i]
    <3>1. PICK j \in k + 1 .. Len(s) : j = i - 1
      BY <1>4, <1>5
    <3>2. i \in 2 .. 1 + Len(s) /\ (e - Len(t)) + i = (e - Len(s)) + j
      BY <1>4, <1>5, <3>1
    <3>3. t[i] = s[j]
      BY <1>4, <3>1, <3>2
    <3> QED BY <2>2, <3>2, <3>3
  <2> QED BY <2>1, <2>2, <2>3
<1>8. Segs(t, c, e, k + 1)
  BY <1>6, <1>7 DEF Segs
<1>9. Seg(t, c, e)
  BY <1>5, <1>8 DEF Seg
<1> QED BY <1>2, <1>3, <1>4, <1>9

(* What a caller has got in b is, after k characters pushed back, what c holds up to p. *)
GotTo(b, c, p, k) ==
  /\ \A i \in 1 .. k : b[i] = PUSHED
  /\ \/ Drop(b, k) = <<>>
     \/ /\ p >= Len(Drop(b, k)) /\ p <= Len(c)
        /\ Drop(b, k) = SubSeq(c, p - Len(Drop(b, k)) + 1, p)
Got(b, c, p) == \E k \in 0 .. Len(b) : GotTo(b, c, p, k)

LEMMA SegGot ==
  ASSUME NEW b \in Seq(Int), NEW o \in Seq(Int), NEW c \in Seq(Unit), NEW p \in Int, NEW e \in Int, Is(e, p + Len(o)),
         NEW s \in Seq(Int), Is(s, b \o o), Seg(s, c, e)
  PROVE  Got(b, c, p)
<1>2. PICK k \in 0 .. Len(s) : Segs(s, c, e, k)
  BY DEF Seg
<1>3. Len(s) = Len(b) + Len(o) /\ \A i \in 1 .. Len(b) : s[i] = b[i]
  BY ConcatAt DEF Is
<1>4. Len(b) \in Nat /\ Len(o) \in Nat /\ Len(c) \in Nat /\ k \in Nat /\ k <= Len(s)
  OBVIOUS
<1>5. CASE k >= Len(b)
  <2>0. Drop(b, Len(b)) \in Seq(Int) /\ Len(Drop(b, Len(b))) = Len(b) - Len(b)
    BY <1>4, DropAt
  <2>1. PICK d \in Seq(Int) : d = Drop(b, Len(b)) /\ Len(d) = Len(b) - Len(b)
    BY <2>0
  <2>2. d = <<>>
    BY <1>4, <2>1, EmptySeq
  <2>3. ASSUME NEW i \in 1 .. Len(b) PROVE b[i] = PUSHED
    <3>1. i \in 1 .. k
      BY <1>4, <1>5
    <3> QED BY <1>2, <1>3, <3>1 DEF Segs
  <2>4. Len(b) \in 0 .. Len(b)
    BY <1>4
  <2>5. GotTo(b, c, p, Len(b))
    BY <2>1, <2>2, <2>3 DEF GotTo
  <2> QED BY <2>4, <2>5 DEF Got
<1>6. CASE k < Len(b)
  <2>0. k <= Len(b)
    BY <1>4, <1>6
  <2>15. Drop(b, k) \in Seq(Int)
    BY <1>4, <2>0, DropAt
  <2>14. PICK d \in Seq(Int) : d = Drop(b, k)
    BY <2>15
  <2>1. d = Drop(b, k) /\ Len(d) = Len(b) - k /\ \A i \in 1 .. Len(b) - k : d[i] = b[k + i]
    BY <1>4, <2>0, <2>14, DropAt
  <2>2. k < Len(s)
    BY <1>3, <1>4, <1>6
  <2>3. /\ e <= Len(c) /\ Len(s) - k <= e
        /\ \A i \in k + 1 .. Len(s) : s[i] = c[(e - Len(s)) + i]
    BY <1>2, <2>2 DEF Segs
  <2>16. Len(b) - k \in Nat /\ Len(b) - k > 0
    BY <1>4, <1>6
  <2>4. PICK n \in Nat : n = Len(b) - k /\ n > 0
    BY <2>16
  <2>5. p >= n /\ p <= Len(c) /\ p - n \in Nat
    <3>1. e = p + Len(o)
      BY DEF Is
    <3> QED BY <1>3, <1>4, <2>3, <2>4, <3>1, SMTT(60)
  <2>6. PICK t \in Seq(Unit) : t = SubSeq(c, p - n + 1, p) /\ Len(t) = n /\ \A i \in 1 .. n : t[i] = c[(p - n) + i]
    <3>0. SubSeq(c, p - n + 1, p) \in Seq(Unit)
      BY <2>5
    <3>1. PICK x \in Seq(Unit) : x = SubSeq(c, p - n + 1, p)
      BY <3>0
    <3>2. Len(x) = n /\ \A i \in 1 .. n : x[i] = c[(p - n) + i]
      BY <2>5, <3>1
    <3> QED BY <3>1, <3>2
  <2>7. ASSUME NEW i \in 1 .. n PROVE d[i] = t[i]
    <3>0. i \in Nat /\ i >= 1 /\ i <= n /\ n + k = Len(b) /\ Len(b) <= Len(s)
      BY <1>3, <1>4, <2>4
    <3>1. k + i \in k + 1 .. Len(s) /\ k + i \in 1 .. Len(b) /\ i \in 1 .. Len(b) - k
      BY <1>4, <3>0, SMTT(60)
    <3>2. (e - Len(s)) + (k + i) = (p - n) + i
      <4>1. e = p + Len(o)
        BY DEF Is
      <4> QED BY <1>3, <1>4, <2>4, <4>1
    <3>3. d[i] = s[k + i]
      BY <1>3, <2>1, <3>1
    <3>4. s[k + i] = c[(e - Len(s)) + (k + i)]
      BY <2>3, <3>1
    <3> QED BY <2>6, <3>2, <3>3, <3>4
  <2>8. t \in Seq(Int)
    BY UnitsInts
  <2>9. d = t
    BY <2>1, <2>4, <2>6, <2>7, <2>8, SameSeq, ZenonT(60)
  <2>10. \A i \in 1 .. k : b[i] = PUSHED
    <3>1. ASSUME NEW i \in 1 .. k PROVE b[i] = PUSHED
      <4>1. i \in 1 .. Len(b)
        BY <1>4, <1>6
      <4> QED BY <1>2, <1>3, <4>1 DEF Segs
    <3> QED BY <3>1
  <2>11. k \in 0 .. Len(b) /\ Len(d) = n
    BY <1>4, <1>6, <2>1, <2>4
  <2>12. p >= Len(d) /\ p <= Len(c) /\ d = SubSeq(c, p - Len(d) + 1, p)
    BY <2>5, <2>6, <2>9, <2>11
  <2>13. GotTo(b, c, p, k)
    BY <2>1, <2>10, <2>12 DEF GotTo
  <2> QED BY <2>11, <2>13 DEF Got
<1> QED BY <1>4, <1>5, <1>6

---------------------------------------------------------------------------
(* The gz_state of a reader *)

RFields == {"size", "want", "in", "out", "fpos", "pos", "raw", "eof", "how", "direct", "seek", "err"}

ReaderOK(g) ==
  /\ DOMAIN g = RFields /\ g.size \in Nat /\ g.want \in Nat /\ g.want > 0
  /\ g.in \in Seq(Unit) /\ g.out \in Seq(Int) /\ g.fpos \in Nat /\ g.pos \in Int /\ g.raw \in Int
  /\ g.eof \in BOOLEAN /\ g.how \in {"LOOK", "COPY", "GZIP"} /\ g.seek \in Nat /\ g.err = "OK"
  /\ g.how # "LOOK" => g.size > 0

(* The input buffer holds the units of the file before p.  A reader that has met the end of the
   file has not met it after a lone magic byte, unless that is still the end. *)
InFile(in, p, eof, f) ==
  /\ p <= Len(f) /\ Len(in) <= p
  /\ \A i \in 1 .. Len(in) : in[i] = f[(p - Len(in)) + i]
  /\ eof => p = Len(f) \/ Known(f, p).how # "id1"

(* Units before n have been used: they have made the data there is up to e. *)
Used1(f, n, how, e) == n \in Nat /\ n <= Len(f) /\ Known(f, n).how = how /\ Len(Known(f, n).data) = e

InMember(g, f, how) ==
  InFile(g.in, g.fpos, g.eof, f) /\ Used1(f, g.fpos - Len(g.in), how, g.pos + Len(g.out))

Copies(f, r, raw, p, e) == RawFrom(f, r) /\ Len(Known(f, r).data) = raw /\ p >= r /\ p - r = e - raw

InRaw(g, f) == g.in = <<>> /\ \E r \in Nat : Copies(f, r, g.raw, g.fpos, g.pos + Len(g.out))

ModeOK(g, f) ==
  /\ g.how = "LOOK" => InMember(g, f, "look")
  /\ g.how = "GZIP" => InMember(g, f, "data")
  /\ g.how = "COPY" => InRaw(g, f)

(* gz_load() *)
LEMMA LoadIs ==
  ASSUME NEW f \in Seq(Unit), NEW p \in Nat, NEW n \in Nat, NEW l, Is(l, Take(Drop(f, Lesser(p, Len(f))), n))
  PROVE  /\ l \in Seq(Unit) /\ Len(l) \in Nat /\ Len(l) <= n
         /\ p > Len(f) => l = <<>>
         /\ p <= Len(f) => p + Len(l) <= Len(f) /\ (Len(l) < n => p + Len(l) = Len(f))
         /\ \A i \in 1 .. Len(l) : l[i] = f[p + i]
<1>1. PICK q \in Nat : q = Lesser(p, Len(f)) /\ q <= Len(f) /\ q <= p /\ (q = p \/ (q = Len(f) /\ p > Len(f)))
  <2>1. Len(f) \in Nat
    OBVIOUS
  <2>2. Lesser(p, Len(f)) \in Nat /\ Lesser(p, Len(f)) <= Len(f) /\ Lesser(p, Len(f)) <= p
        /\ (Lesser(p, Len(f)) = p \/ (Lesser(p, Len(f)) = Len(f) /\ p > Len(f)))
    BY <2>1 DEF Lesser
  <2> QED BY <2>2
<1>2. PICK d \in Seq(Unit) : d = Drop(f, q)
  BY <1>1, DropAt
<1>3. Len(d) = Len(f) - q /\ \A i \in 1 .. Len(f) - q : d[i] = f[q + i]
  BY <1>1, <1>2, DropAt, ZenonT(60)
<1>4. Is(l, Take(d, n))
  BY <1>1, <1>2 DEF Is
<1>5. Len(f) \in Nat /\ Len(d) \in Nat
  OBVIOUS
<1>6. CASE n <= Len(d)
  <2>1. l \in Seq(Unit) /\ Len(l) = n /\ \A i \in 1 .. n : l[i] = d[i]
    BY <1>4, <1>6, TakeAt DEF Is
  <2>2. CASE q = p
    <3>1. \A i \in 1 .. Len(l) : l[i] = f[p + i]
      BY <1>3, <1>5, <1>6, <2>1, <2>2
    <3>2. ~(p > Len(f)) /\ p + Len(l) <= Len(f) /\ ~(Len(l) < n)
      BY <1>1, <1>3, <1>5, <1>6, <2>1, <2>2
    <3> QED BY <2>1, <3>1, <3>2
  <2>3. CASE q = Len(f) /\ p > Len(f)
    <3>1. n = 0
      BY <1>3, <1>5, <1>6, <2>3
    <3>2. l = <<>> /\ ~(p <= Len(f))
      BY <2>1, <2>3, <3>1, EmptySeq
    <3> QED BY <2>1, <3>1, <3>2
  <2> QED BY <1>1, <2>2, <2>3
<1>7. CASE n > Len(d)
  <2>1. l = d
    BY <1>4, <1>5, <1>7, TakeAll DEF Is
  <2>2. CASE q = p
    BY <1>1, <1>3, <1>5, <1>7, <2>1, <2>2, SMTT(60)
  <2>3. CASE q = Len(f) /\ p > Len(f)
    <3>1. Len(d) = 0
      BY <1>3, <1>5, <2>3
    <3>2. d = <<>>
      BY <3>1, EmptySeq
    <3> QED BY <1>5, <1>7, <2>1, <2>3, <3>1, <3>2
  <2> QED BY <1>1, <2>2, <2>3
<1> QED BY <1>5, <1>6, <1>7

(* The fields that a step of the input leaves alone. *)
Alike(t, g) ==
  /\ t.size = g.size /\ t.want = g.want /\ t.out = g.out /\ t.pos = g.pos /\ t.raw = g.raw
  /\ t.how = g.how /\ t.seek = g.seek

Inputs(t, g, in, p, eof) == t = [g EXCEPT !.fpos = p, !.eof = eof, !.in = in]
HasInput(t, g, in, p, eof) == ReaderOK(t) /\ Alike(t, g) /\ t.in = in /\ t.fpos = p /\ t.eof = eof

LEMMA InputReader ==
  ASSUME NEW g, ReaderOK(g), NEW in \in Seq(Unit), NEW p \in Nat, NEW eof \in BOOLEAN, NEW t,
         Inputs(t, g, in, p, eof)
  PROVE  HasInput(t, g, in, p, eof)
BY DEF ReaderOK, RFields, Alike, Inputs, HasInput

(* gz_avail() *)
LEMMA AvailIs ==
  ASSUME NEW g, ReaderOK(g), g.size > 0, file \in Seq(Unit), InFile(g.in, g.fpos, g.eof, file),
         NEW t, Is(t, gz_avail(g)), t.err = "OK"
  PROVE  /\ ReaderOK(t) /\ Alike(t, g) /\ InFile(t.in, t.fpos, t.eof, file)
         /\ t.fpos - Len(t.in) = g.fpos - Len(g.in)
         /\ t.in = <<>> => t.eof
<1>1. g.err = "OK" /\ DOMAIN g = RFields /\ g.size \in Nat /\ g.in \in Seq(Unit) /\ g.fpos \in Nat /\ g.eof \in BOOLEAN
      /\ Len(g.in) \in Nat
  BY DEF ReaderOK
<1>2. CASE g.in # <<>> \/ g.eof
  <2>1. t = g
    BY <1>2 DEF gz_avail, Is
  <2> QED BY <1>1, <1>2, <2>1 DEF Alike
<1>3. CASE g.in = <<>> /\ ~g.eof /\ failing
  <2>1. t = [g EXCEPT !.err = "ERRNO"]
    BY <1>1, <1>3 DEF gz_avail, Is
  <2> QED BY <1>1, <2>1 DEF RFields
<1>4. CASE g.in = <<>> /\ ~g.eof /\ ~failing
  <2>1. PICK l : Is(l, gz_load(g, g.size))
    BY DEF Is
  <2>2. Is(l, Take(Drop(file, Lesser(g.fpos, Len(file))), g.size))
    BY <2>1 DEF Is, gz_load, Rest
  <2>3. PICK p \in Nat : p = g.fpos
    BY <1>1
  <2>4. PICK n \in Nat : n = g.size /\ n > 0
    BY <1>1
  <2>5. Is(l, Take(Drop(file, Lesser(p, Len(file))), n)) /\ p <= Len(file)
    BY <2>2, <2>3, <2>4 DEF InFile
  <2>6. /\ l \in Seq(Unit) /\ Len(l) \in Nat /\ Len(l) <= n
        /\ p + Len(l) <= Len(file) /\ (Len(l) < n => p + Len(l) = Len(file))
        /\ \A i \in 1 .. Len(l) : l[i] = file[p + i]
    BY <2>5, LoadIs
  <2>7. PICK eof \in BOOLEAN : eof = (g.eof \/ Len(l) < n)
    OBVIOUS
  <2>8. PICK q \in Nat : q = p + Len(l)
    BY <2>6
  <2>9. Inputs(t, g, l, q, eof)
    <3>1. t = [Loaded(g, g.size) EXCEPT !.in = gz_load(g, g.size)]
      BY <1>1, <1>4 DEF gz_avail, Is
    <3>2. Loaded(g, g.size) = [g EXCEPT !.fpos = g.fpos + Len(l), !.eof = g.eof \/ Len(l) < g.size]
      BY <2>1, Zenon DEF Is, Loaded
    <3>3. t = [[g EXCEPT !.fpos = q, !.eof = eof] EXCEPT !.in = l]
      BY <2>1, <2>3, <2>4, <2>7, <2>8, <3>1, <3>2 DEF Is
    <3> QED BY <3>3 DEF Inputs
  <2>10. ReaderOK(t) /\ Alike(t, g) /\ t.in = l /\ t.fpos = q /\ t.eof = eof
    <3>1. l \in Seq(Unit)
      BY <2>6
    <3>2. HasInput(t, g, l, q, eof)
      BY <2>9, <3>1, InputReader
    <3> QED BY <3>2 DEF HasInput
  <2>11. InFile(l, q, eof, file)
    <3>1. q - Len(l) = p /\ Len(l) <= q /\ q <= Len(file)
      BY <2>6, <2>8
    <3>2. eof => q = Len(file)
      BY <1>4, <2>6, <2>7, <2>8
    <3> QED BY <2>6, <3>1, <3>2 DEF InFile
  <2>12. l = <<>> => eof
    BY <2>4, <2>6, <2>7, EmptySeq
  <2>13. q - Len(l) = p /\ Len(g.in) = 0
    BY <1>4, <2>6, <2>8
  <2> QED BY <1>1, <2>3, <2>10, <2>11, <2>12, <2>13
<1> QED BY <1>1, <1>2, <1>3, <1>4

LEMMA AvailFails ==
  ASSUME NEW g, DOMAIN g = RFields, NEW t, Is(t, gz_avail(g))
  PROVE  /\ DOMAIN t = RFields
         /\ g.err = "OK" /\ t.err # "OK" => t.in = <<>>
         /\ g.err # "OK" => t = g
<1>1. CASE g.in # <<>> \/ g.err # "OK" \/ g.eof
  BY <1>1 DEF gz_avail, Is
<1>2. CASE ~(g.in # <<>> \/ g.err # "OK" \/ g.eof) /\ failing
  <2>1. t = [g EXCEPT !.err = "ERRNO"]
    BY <1>2 DEF gz_avail, Is
  <2> QED BY <1>2, <2>1 DEF RFields
<1>3. CASE ~(g.in # <<>> \/ g.err # "OK" \/ g.eof) /\ ~failing
  <2>1. t = [Loaded(g, g.size) EXCEPT !.in = gz_load(g, g.size)]
    BY <1>3 DEF gz_avail, Is
  <2> QED BY <1>3, <2>1 DEF RFields, Loaded
<1> QED BY <1>1, <1>2, <1>3

LEMMA TailAt ==
  ASSUME NEW T, NEW s \in Seq(T), s # <<>>
  PROVE  /\ Tail(s) \in Seq(T) /\ Len(s) \in Nat /\ Len(s) >= 1 /\ Len(Tail(s)) = Len(s) - 1
         /\ \A i \in 1 .. Len(s) - 1 : Tail(s)[i] = s[i + 1]
         /\ Head(s) = s[1]
OBVIOUS

(* NEXT() *)
LEMMA Next1Is ==
  ASSUME NEW g, ReaderOK(g), file \in Seq(Unit), InFile(g.in, g.fpos, g.eof, file), g.in # <<>>,
         NEW t, Is(t, Next1(g)), NEW a, Is(a, g.fpos - Len(g.in))
  PROVE  /\ ReaderOK(t) /\ Alike(t, g) /\ InFile(t.in, t.fpos, t.eof, file)
         /\ a \in Nat /\ a < Len(file) /\ Is(a + 1, t.fpos - Len(t.in)) /\ Head(g.in) = file[a + 1]
<1>1. g.in \in Seq(Unit) /\ g.fpos \in Nat /\ g.eof \in BOOLEAN /\ DOMAIN g = RFields
  BY DEF ReaderOK
<1>2. PICK in \in Seq(Unit) : in = g.in /\ in # <<>>
  BY <1>1
<1>3. PICK r \in Seq(Unit) : r = Tail(in)
  BY <1>2, TailAt
<1>4. Len(in) \in Nat /\ Len(in) >= 1 /\ Len(r) = Len(in) - 1 /\ (\A i \in 1 .. Len(in) - 1 : r[i] = in[i + 1]) /\ Head(in) = in[1]
  BY <1>2, <1>3, TailAt
<1>5. PICK p \in Nat : p = g.fpos
  BY <1>1
<1>6. PICK eof \in BOOLEAN : eof = g.eof
  BY <1>1
<1>7. Inputs(t, g, r, p, eof)
  <2>1. t = [g EXCEPT !.in = r]
    BY <1>2, <1>3 DEF Next1, Is
  <2> QED BY <1>1, <1>5, <1>6, <2>1 DEF Inputs, RFields
<1>8. HasInput(t, g, r, p, eof)
  BY <1>7, InputReader
<1>9. InFile(in, p, eof, file) /\ Is(a, p - Len(in))
  BY <1>2, <1>5, <1>6
<1>10. /\ p <= Len(file) /\ Len(in) <= p /\ a = p - Len(in)
       /\ \A i \in 1 .. Len(in) : in[i] = file[(p - Len(in)) + i]
  BY <1>9 DEF InFile, Is
<1>11. a \in Nat /\ a < Len(file) /\ a + 1 = p - Len(r) /\ Len(file) \in Nat
  BY <1>4, <1>10
<1>12. in[1] = file[a + 1]
  BY <1>4, <1>10
<1>13. \A i \in 1 .. Len(r) : r[i] = file[(p - Len(r)) + i]
  <2>1. ASSUME NEW i \in 1 .. Len(r) PROVE r[i] = file[(p - Len(r)) + i]
    <3>1. i \in 1 .. Len(in) - 1 /\ i + 1 \in 1 .. Len(in) /\ (p - Len(in)) + (i + 1) = (p - Len(r)) + i
      BY <1>4
    <3>2. in[i + 1] = file[(p - Len(in)) + (i + 1)]
      BY <1>10, <3>1
    <3> QED BY <1>4, <3>1, <3>2
  <2> QED BY <2>1
<1>14. InFile(r, p, eof, file)
  <2>1. Len(r) <= p
    BY <1>4, <1>10
  <2> QED BY <1>9, <1>13, <2>1 DEF InFile
<1> QED BY <1>2, <1>4, <1>8, <1>11, <1>12, <1>14 DEF HasInput, Is

(* What a call that fills the output buffer leaves: unless it fails, more of what the file holds. *)
Made(t, g) ==
  /\ DOMAIN t = RFields
  /\ t.err = "OK" => /\ ReaderOK(t) /\ ModeOK(t, file) /\ t.pos = g.pos /\ t.seek = g.seek
                     /\ Gives(t.out, Content(file), g.pos)

Outputs(t, g, o) ==
  t = [g EXCEPT !.raw = g.pos, !.out = o, !.in = <<>>, !.how = "COPY", !.direct = TRUE]
HasOutput(t, g, o) ==
  /\ ReaderOK(t) /\ t.raw = g.pos /\ t.out = o /\ t.in = <<>> /\ t.how = "COPY" /\ t.fpos = g.fpos
  /\ t.pos = g.pos /\ t.seek = g.seek

LEMMA OutputReader ==
  ASSUME NEW g, ReaderOK(g), g.size > 0, NEW o \in Seq(Int), NEW t, Outputs(t, g, o)
  PROVE  HasOutput(t, g, o)
BY EmptySeq DEF ReaderOK, RFields, Outputs, HasOutput

(* Units of a file that is copied, as content. *)
LEMMA CopiesGive ==
  ASSUME NEW f \in Seq(Unit), NEW r \in Nat, NEW raw \in Int, NEW p \in Nat, NEW e \in Int, Copies(f, r, raw, p, e),
         NEW o \in Seq(Unit), p + Len(o) <= Len(f) \/ o = <<>>, \A i \in 1 .. Len(o) : o[i] = f[p + i]
  PROVE  Gives(o, Content(f), e) /\ e \in Nat /\ Copies(f, r, raw, p + Len(o), e + Len(o))
<1>1. /\ RawFrom(f, r) /\ Len(Known(f, r).data) = raw /\ p >= r /\ p - r = e - raw
      /\ r <= Len(f) /\ Len(f) \in Nat /\ Len(o) \in Nat
  BY DEF Copies, RawFrom
<1>2. Known(f, r).data \in Seq(Unit) /\ raw \in Nat
  BY <1>1, KnownType
<1>3. RawHolds(f, r, Len(f), Known(f, r).data, Content(Take(f, Len(f))))
  BY <1>1, RawContent
<1>4. Take(f, Len(f)) = f
  BY <1>1, TakeAll
<1>5. PICK c : c = Content(f)
  OBVIOUS
<1>6. Len(c) = raw + (Len(f) - r) /\ \A i \in 1 .. Len(f) - r : c[raw + i] = f[r + i]
  BY <1>1, <1>3, <1>4, <1>5 DEF RawHolds
<1>7. e \in Nat /\ e = raw + (p - r)
  BY <1>1, <1>2
<1>8. ASSUME NEW i \in 1 .. Len(o) PROVE e + i <= Len(c) /\ o[i] = c[e + i]
  <2>1. p + Len(o) <= Len(f)
    BY <1>1, EmptySeq
  <2>2. (p - r) + i \in 1 .. Len(f) - r /\ raw + ((p - r) + i) = e + i /\ r + ((p - r) + i) = p + i
    BY <1>1, <1>2, <1>7, <2>1
  <2>3. c[raw + ((p - r) + i)] = f[r + ((p - r) + i)]
    BY <1>6, <2>2
  <2>4. e + i <= Len(c)
    BY <1>1, <1>2, <1>6, <1>7, <2>1
  <2> QED BY <2>2, <2>3, <2>4
<1>9. Gives(o, c, e)
  BY <1>8 DEF Gives
<1>10. Copies(f, r, raw, p + Len(o), e + Len(o))
  <2>1. PICK n \in Nat : n = Len(o)
    BY <1>1
  <2>2. p + n >= r /\ (p + n) - r = (e + n) - raw
    BY <1>1, <1>2
  <2>3. Copies(f, r, raw, p + n, e + n)
    BY <1>1, <2>2 DEF Copies
  <2> QED BY <2>1, <2>3
<1> QED BY <1>5, <1>7, <1>9, <1>10

(* gz_head() from "doing raw i/o" on. *)
LEMMA RawIs ==
  ASSUME NEW g, ReaderOK(g), g.size > 0, file \in Seq(Unit), InFile(g.in, g.fpos, g.eof, file),
         NEW first \in Seq(Unit), NEW r \in Nat, RawFrom(file, r), Is(r + Len(first), g.fpos - Len(g.in)),
         \A i \in 1 .. Len(first) : first[i] = file[r + i],
         Is(Len(Known(file, r).data), g.pos), NEW t, Is(t, Raw(g, first))
  PROVE  Made(t, g)
<1>1. g.in \in Seq(Unit) /\ g.fpos \in Nat /\ g.pos \in Int /\ Len(file) \in Nat
  BY DEF ReaderOK
<1>2. PICK in \in Seq(Unit) : in = g.in
  BY <1>1
<1>3. PICK p \in Nat : p = g.fpos
  BY <1>1
<1>4. PICK o \in Seq(Unit) : o = first \o in
  BY ConcatAt
<1>5. /\ Len(o) = Len(first) + Len(in) /\ (\A i \in 1 .. Len(first) : o[i] = first[i])
      /\ \A i \in Len(first) + 1 .. Len(first) + Len(in) : o[i] = in[i - Len(first)]
  BY <1>4, ConcatAt
<1>6. Outputs(t, g, o)
  BY <1>2, <1>4 DEF Raw, Outputs, Is
<1>7. o \in Seq(Int)
  BY UnitsInts
<1>8. HasOutput(t, g, o)
  BY <1>6, <1>7, OutputReader
<1>9. Len(first) \in Nat /\ Len(in) \in Nat /\ r + Len(first) = p - Len(in) /\ p <= Len(file) /\ Len(in) <= p
      /\ \A i \in 1 .. Len(in) : in[i] = file[(p - Len(in)) + i]
  BY <1>2, <1>3 DEF InFile, Is
<1>10. ASSUME NEW i \in 1 .. Len(o) PROVE o[i] = file[r + i]
  <2>1. CASE i <= Len(first)
    BY <1>5, <1>9, <2>1, SMTT(60)
  <2>2. CASE i > Len(first)
    <3>0. i \in Int /\ i <= Len(first) + Len(in)
      BY <1>5, <1>9
    <3>3. i - Len(first) \in 1 .. Len(in) /\ i \in Len(first) + 1 .. Len(first) + Len(in)
      BY <1>9, <2>2, <3>0
    <3>4. (p - Len(in)) + (i - Len(first)) = r + i
      <4>1. PICK x \in Nat : x = Len(in)
        BY <1>9
      <4>2. PICK y \in Nat : y = Len(first)
        BY <1>9
      <4>3. r + y = p - x
        BY <1>9, <4>1, <4>2
      <4>4. (p - x) + (i - y) = r + i
        BY <3>0, <4>3
      <4> QED BY <4>1, <4>2, <4>4
    <3>1. i - Len(first) \in 1 .. Len(in) /\ i \in Len(first) + 1 .. Len(first) + Len(in)
          /\ (p - Len(in)) + (i - Len(first)) = r + i
      BY <3>3, <3>4
    <3>2. in[i - Len(first)] = file[(p - Len(in)) + (i - Len(first))]
      BY <1>9, <3>1
    <3> QED BY <1>5, <3>1, <3>2
  <2> QED BY <1>9, <2>1, <2>2
<1>11. p = r + Len(o) /\ r + Len(o) <= Len(file)
  <2>1. PICK n \in Nat : n = Len(o)
    OBVIOUS
  <2>2. n = Len(first) + Len(in)
    BY <1>5, <2>1
  <2>3. p = r + n /\ r + n <= Len(file)
    BY <1>1, <1>9, <2>2
  <2> QED BY <2>1, <2>3
<1>12. PICK e \in Int : e = g.pos
  BY <1>1
<1>13. Copies(file, r, e, r, e)
  BY <1>12 DEF Copies, Is
<1>14. Gives(o, Content(file), e) /\ Copies(file, r, e, r + Len(o), e + Len(o))
  BY <1>10, <1>11, <1>13, CopiesGive
<1>15. InRaw(t, file)
  BY <1>3, <1>8, <1>11, <1>12, <1>14 DEF InRaw, HasOutput
<1>16. ModeOK(t, file)
  BY <1>8, <1>15 DEF ModeOK, HasOutput
<1>17. DOMAIN t = RFields
  BY <1>8 DEF HasOutput, ReaderOK
<1> QED BY <1>8, <1>12, <1>14, <1>16, <1>17 DEF Made, HasOutput

(* A unit that adds no data. *)
LEMMA UsedNext ==
  ASSUME NEW f \in Seq(Unit), NEW n \in Nat, n < Len(f), NEW how, NEW e, Used1(f, n, how, e),
         NEW next, Is(next, After(how, f[n + 1])), next # "raw", how # "data" \/ next # "data"
  PROVE  Used1(f, n + 1, next, e)
<1>1. Len(f) \in Nat /\ n + 1 \in Nat /\ n + 1 <= Len(f) /\ n <= Len(f)
  OBVIOUS
<1>2. PICK k \in Knowns : k = Known(f, n) /\ k.data \in Seq(Unit)
  BY <1>1, KnownType
<1>3. PICK u \in Unit : u = f[n + 1]
  BY KnownNext
<1>4. Known(f, n + 1) = Decode(k, u)
  BY <1>2, <1>3, KnownNext
<1>5. k.how = how /\ After(k.how, u) = next /\ Len(k.data) = e
  BY <1>2, <1>3 DEF Used1, Is
<1>6. Adds(k, u) = <<>>
  BY <1>5 DEF Adds
<1>7. Decode(k, u).how = next /\ Decode(k, u).data = k.data \o <<>>
  BY <1>5, <1>6, DecodeAdds
<1>8. k.data \o <<>> = k.data
  BY <1>2, EmptyConcat
<1> QED BY <1>1, <1>4, <1>5, <1>7, <1>8 DEF Used1

Gzips(t, g) == t = [g EXCEPT !.how = "GZIP", !.direct = FALSE]
IsGzip(t, g) ==
  /\ ReaderOK(t) /\ t.how = "GZIP" /\ t.in = g.in /\ t.fpos = g.fpos /\ t.eof = g.eof /\ t.out = g.out
  /\ t.pos = g.pos /\ t.seek = g.seek

LEMMA GzipReader ==
  ASSUME NEW g, ReaderOK(g), g.size > 0, NEW t, Gzips(t, g)
  PROVE  IsGzip(t, g)
BY DEF ReaderOK, RFields, Gzips, IsGzip

(* gz_head() once it has seen the first magic byte. *)
Magic(g) ==
  LET h == gz_avail(Next1(g))
      m == gz_avail(Next1(h))
  IN IF h.in = <<>> /\ h.err # "OK" THEN h
     ELSE IF h.in = <<>> \/ (h.in # <<>> /\ Head(h.in) # ID2) THEN Raw(h, <<ID1>>)
     ELSE IF m.in = <<>> \/ (m.in # <<>> /\ Head(m.in) # DEFLATED)
     THEN [Next1(m) EXCEPT !.err = "DATA"]
     ELSE [Next1(m) EXCEPT !.how = "GZIP", !.direct = FALSE]

LEMMA MagicMade ==
  ASSUME NEW g, ReaderOK(g), g.size > 0, file \in Seq(Unit), InFile(g.in, g.fpos, g.eof, file),
         g.out = <<>>, g.in # <<>>, Head(g.in) = ID1,
         NEW a, Is(a, g.fpos - Len(g.in)), Used1(file, a, "look", g.pos), NEW t, Is(t, Magic(g))
  PROVE  Made(t, g)
<1>1. PICK x : Is(x, Next1(g))
  BY DEF Is
<1>2. PICK h : Is(h, gz_avail(x))
  BY DEF Is
<1>3. PICK y : Is(y, Next1(h))
  BY DEF Is
<1>4. PICK m : Is(m, gz_avail(y))
  BY DEF Is
<1>5. PICK z : Is(z, Next1(m))
  BY DEF Is
<1>6. t = IF h.in = <<>> /\ h.err # "OK" THEN h
          ELSE IF h.in = <<>> \/ (h.in # <<>> /\ Head(h.in) # ID2) THEN Raw(h, <<ID1>>)
          ELSE IF m.in = <<>> \/ (m.in # <<>> /\ Head(m.in) # DEFLATED)
          THEN [z EXCEPT !.err = "DATA"]
          ELSE [z EXCEPT !.how = "GZIP", !.direct = FALSE]
  BY <1>1, <1>2, <1>3, <1>4, <1>5 DEF Is, Magic
<1>7. /\ ReaderOK(x) /\ Alike(x, g) /\ InFile(x.in, x.fpos, x.eof, file)
      /\ a \in Nat /\ a < Len(file) /\ Is(a + 1, x.fpos - Len(x.in)) /\ Head(g.in) = file[a + 1]
  BY <1>1, Next1Is
<1>8. Used1(file, a + 1, "id1", g.pos) /\ file[a + 1] = ID1
  <2>1. file[a + 1] = ID1
    BY <1>7
  <2>2. Is("id1", After("look", file[a + 1]))
    BY <2>1 DEF After, Is
  <2> QED BY <1>7, <2>1, <2>2, UsedNext
<1>9. DOMAIN h = RFields /\ (h.err # "OK" => h.in = <<>>)
  <2>1. DOMAIN x = RFields /\ x.err = "OK"
    BY <1>7 DEF ReaderOK
  <2> QED BY <1>2, <2>1, AvailFails
<1>10. CASE h.err # "OK"
  <2>1. t = h
    BY <1>6, <1>9, <1>10
  <2> QED BY <1>9, <1>10, <2>1 DEF Made
<1>11. CASE h.err = "OK"
  <2>1. x.size > 0 /\ x.pos = g.pos /\ x.seek = g.seek /\ x.out = <<>>
    BY <1>7 DEF Alike
  <2>2. /\ ReaderOK(h) /\ Alike(h, x) /\ InFile(h.in, h.fpos, h.eof, file)
        /\ h.fpos - Len(h.in) = x.fpos - Len(x.in)
        /\ h.in = <<>> => h.eof
    BY <1>2, <1>7, <1>11, <2>1, AvailIs
  <2>3. h.size > 0 /\ h.pos = g.pos /\ h.seek = g.seek /\ h.out = <<>> /\ Is(a + 1, h.fpos - Len(h.in))
    BY <1>7, <2>1, <2>2 DEF Alike, Is
  <2>4. ASSUME RawFrom(file, a), t = Raw(h, <<ID1>>) PROVE Made(t, g)
    <3>1. PICK first \in Seq(Unit) : first = <<ID1>> /\ Len(first) = 1 /\ first[1] = ID1
      <4>1. <<ID1>> \in Seq(Unit)
        BY DEF ID1, Unit
      <4> QED BY <4>1
    <3>2. Is(t, Raw(h, first))
      BY <2>4, <3>1 DEF Is
    <3>3. Is(a + Len(first), h.fpos - Len(h.in)) /\ \A i \in 1 .. Len(first) : first[i] = file[a + i]
      <4>1. Is(a + Len(first), h.fpos - Len(h.in))
        BY <2>3, <3>1
      <4>2. \A i \in 1 .. Len(first) : first[i] = file[a + i]
        BY <1>7, <1>8, <3>1
      <4> QED BY <4>1, <4>2
    <3>4. Is(Len(Known(file, a).data), h.pos)
      BY <2>3 DEF Used1, Is
    <3>5. ReaderOK(h) /\ InFile(h.in, h.fpos, h.eof, file) /\ h.size > 0
      BY <2>2, <2>3
    <3>6. Made(t, h)
      BY <1>7, <2>4, <3>2, <3>3, <3>4, <3>5, RawIs
    <3> QED BY <2>3, <3>6 DEF Made
  <2>5. CASE h.in = <<>>
    <3>1. t = Raw(h, <<ID1>>)
      BY <1>6, <1>11, <2>5
    <3>2. h.fpos = a + 1
      BY <1>7, <2>2, <2>3, <2>5, SMTT(60) DEF Is, ReaderOK
    <3>3. Len(file) = a + 1
      BY <1>8, <2>2, <2>5, <3>2 DEF InFile, Used1
    <3>4. RawFrom(file, a)
      BY <1>7, <3>3 DEF RawFrom, Used1
    <3> QED BY <2>4, <3>1, <3>4
  <2>6. CASE h.in # <<>>
    <3>1. PICK b : b = a + 1
      OBVIOUS
    <3>2. /\ ReaderOK(y) /\ Alike(y, h) /\ InFile(y.in, y.fpos, y.eof, file)
          /\ b \in Nat /\ b < Len(file) /\ Is(b + 1, y.fpos - Len(y.in)) /\ Head(h.in) = file[b + 1]
      <4>1. Is(b, h.fpos - Len(h.in))
        BY <2>3, <3>1
      <4> QED BY <1>3, <2>2, <2>6, <4>1, Next1Is
    <3>3. CASE Head(h.in) # ID2
      <4>1. t = Raw(h, <<ID1>>)
        BY <1>6, <2>6, <3>3
      <4>2. file[a + 2] # ID2
        BY <1>7, <3>1, <3>2, <3>3
      <4>3. RawFrom(file, a)
        BY <1>7, <4>2 DEF RawFrom, Used1
      <4> QED BY <2>4, <4>1, <4>3
    <3>4. CASE Head(h.in) = ID2
      <4>1. t = IF m.in = <<>> \/ (m.in # <<>> /\ Head(m.in) # DEFLATED)
                THEN [z EXCEPT !.err = "DATA"]
                ELSE [z EXCEPT !.how = "GZIP", !.direct = FALSE]
        BY <1>6, <2>6, <3>4
      <4>2. Used1(file, b + 1, "id2", g.pos)
        <5>1. Is("id2", After("id1", file[b + 1])) /\ Used1(file, b, "id1", g.pos)
          BY <1>8, <3>1, <3>2, <3>4 DEF After, Is
        <5> QED BY <3>2, <5>1, UsedNext
      <4>3. DOMAIN m = RFields /\ (m.err # "OK" => m.in = <<>>)
        <5>1. DOMAIN y = RFields /\ y.err = "OK"
          BY <3>2 DEF ReaderOK
        <5> QED BY <1>4, <5>1, AvailFails
      <4>4. DOMAIN z = RFields
        BY <1>5, <4>3 DEF Is, Next1
      <4>5. CASE m.in = <<>> \/ Head(m.in) # DEFLATED
        <5>1. t = [z EXCEPT !.err = "DATA"]
          BY <4>1, <4>5
        <5> QED BY <4>4, <5>1 DEF Made, RFields
      <4>6. CASE m.in # <<>> /\ Head(m.in) = DEFLATED
        <5>1. Gzips(t, z)
          BY <4>1, <4>6 DEF Gzips
        <5>2. y.size > 0 /\ y.pos = g.pos /\ y.seek = g.seek /\ y.out = <<>> /\ m.err = "OK"
          BY <2>3, <3>2, <4>3, <4>6 DEF Alike
        <5>3. /\ ReaderOK(m) /\ Alike(m, y) /\ InFile(m.in, m.fpos, m.eof, file)
              /\ m.fpos - Len(m.in) = y.fpos - Len(y.in)
          BY <1>4, <3>2, <5>2, AvailIs
        <5>4. PICK c : c = b + 1
          OBVIOUS
        <5>5. Is(c, m.fpos - Len(m.in))
          BY <3>2, <5>3, <5>4 DEF Is
        <5>6. /\ ReaderOK(z) /\ Alike(z, m) /\ InFile(z.in, z.fpos, z.eof, file)
              /\ c \in Nat /\ c < Len(file) /\ Is(c + 1, z.fpos - Len(z.in)) /\ Head(m.in) = file[c + 1]
          BY <1>5, <4>6, <5>3, <5>5, Next1Is
        <5>7. Used1(file, c + 1, "data", g.pos)
          <6>1. Is("data", After("id2", file[c + 1])) /\ Used1(file, c, "id2", g.pos)
            BY <4>2, <4>6, <5>4, <5>6 DEF After, Is
          <6> QED BY <5>6, <6>1, UsedNext
        <5>8. z.size > 0 /\ z.pos = g.pos /\ z.seek = g.seek /\ z.out = <<>>
          BY <5>2, <5>3, <5>6 DEF Alike
        <5>9. IsGzip(t, z)
          BY <5>1, <5>6, <5>8, GzipReader
        <5>10. t.pos + Len(t.out) = g.pos
          BY <5>8, <5>9 DEF IsGzip, ReaderOK
        <5>11. InMember(t, file, "data")
          BY <5>6, <5>7, <5>9, <5>10 DEF InMember, IsGzip, Is
        <5>12. ModeOK(t, file)
          BY <5>9, <5>11 DEF ModeOK, IsGzip
        <5>13. Gives(t.out, Content(file), g.pos)
          BY <5>8, <5>9 DEF Gives, IsGzip
        <5>14. DOMAIN t = RFields /\ t.pos = g.pos /\ t.seek = g.seek /\ ReaderOK(t)
          BY <5>8, <5>9 DEF IsGzip, ReaderOK
        <5> QED BY <5>12, <5>13, <5>14 DEF Made
      <4> QED BY <4>5, <4>6
    <3> QED BY <3>3, <3>4
  <2> QED BY <2>5, <2>6
<1> QED BY <1>10, <1>11

(* gz_head(), of a reader that has used the units before a. *)
LEMMA HeadMade ==
  ASSUME NEW g0, ReaderOK(g0), ModeOK(g0, file), g0.how = "LOOK", g0.out = <<>>, file \in Seq(Unit),
         NEW t, Is(t, gz_head(g0))
  PROVE  Made(t, g0)
<1> DEFINE f0 == [g0 EXCEPT !.size = g0.want]
           g == gz_avail(f0)
<1>1. t = CASE g.in = <<>>          -> g
            [] g.in # <<>> /\ Head(g.in) # ID1 -> Raw(g, <<>>)
            [] OTHER -> Magic(g)
  BY DEF Is, gz_head, Magic
<1>2. ReaderOK(f0) /\ f0.size > 0 /\ Alike([f0 EXCEPT !.size = g0.size], g0) /\ f0.in = g0.in /\ f0.fpos = g0.fpos /\ f0.eof = g0.eof
      /\ f0.pos = g0.pos /\ f0.out = <<>> /\ f0.seek = g0.seek /\ f0.how = "LOOK"
  BY DEF ReaderOK, RFields, Alike
<1>3. PICK a : Is(a, g0.fpos - Len(g0.in))
  BY DEF Is
<1>4. InFile(g0.in, g0.fpos, g0.eof, file) /\ Used1(file, a, "look", g0.pos)
  <2>1. InMember(g0, file, "look")
    BY DEF ModeOK
  <2>2. g0.pos + Len(g0.out) = g0.pos
    BY DEF ReaderOK
  <2> QED BY <1>3, <2>1, <2>2 DEF InMember, Is
<1>5. DOMAIN g = RFields /\ (g.err # "OK" => g.in = <<>>)
  <2>1. Is(g, gz_avail(f0)) /\ DOMAIN f0 = RFields /\ f0.err = "OK"
    BY <1>2 DEF Is, ReaderOK
  <2> HIDE DEF g, f0
  <2> QED BY <2>1, AvailFails
<1>6. ASSUME g.err = "OK"
      PROVE  /\ ReaderOK(g) /\ Alike(g, f0) /\ InFile(g.in, g.fpos, g.eof, file) /\ g.size > 0
             /\ Is(a, g.fpos - Len(g.in)) /\ g.pos = g0.pos /\ g.out = <<>> /\ g.seek = g0.seek /\ g.how = "LOOK"
  <2>1. Is(g, gz_avail(f0)) /\ InFile(f0.in, f0.fpos, f0.eof, file)
    BY <1>2, <1>4 DEF Is
  <2> HIDE DEF g, f0
  <2>2. /\ ReaderOK(g) /\ Alike(g, f0) /\ InFile(g.in, g.fpos, g.eof, file)
        /\ g.fpos - Len(g.in) = f0.fpos - Len(f0.in)
    BY <1>2, <1>6, <2>1, AvailIs
  <2> QED BY <1>2, <1>3, <2>2 DEF Alike, Is
<1> HIDE DEF g, f0
<1>7. CASE g.err # "OK"
  <2>1. t = g
    BY <1>1, <1>5, <1>7
  <2> QED BY <1>5, <1>7, <2>1 DEF Made
<1>8. CASE g.err = "OK" /\ g.in = <<>>
  <2>1. t = g
    BY <1>1, <1>8
  <2>2. InMember(g, file, "look")
    <3>1. g.pos + Len(g.out) = g0.pos
      BY <1>6, <1>8 DEF ReaderOK
    <3> QED BY <1>4, <1>6, <1>8, <3>1 DEF InMember, Is
  <2>3. ModeOK(g, file)
    BY <1>6, <1>8, <2>2 DEF ModeOK
  <2>4. Gives(g.out, Content(file), g0.pos)
    BY <1>6, <1>8 DEF Gives
  <2> QED BY <1>5, <1>6, <1>8, <2>1, <2>3, <2>4 DEF Made
<1>9. CASE g.err = "OK" /\ g.in # <<>>
  <2>0. PICK x : Is(x, Next1(g))
    BY DEF Is
  <2>1. /\ a \in Nat /\ a < Len(file) /\ Head(g.in) = file[a + 1]
    <3>2. ReaderOK(g) /\ InFile(g.in, g.fpos, g.eof, file) /\ Is(a, g.fpos - Len(g.in))
      BY <1>6, <1>9
    <3> QED BY <1>9, <2>0, <3>2, Next1Is
  <2>2. Known(file, a).how = "look" /\ Is(Len(Known(file, a).data), g.pos) /\ g.pos = g0.pos /\ g.seek = g0.seek
    BY <1>4, <1>6, <1>9 DEF Used1, Is
  <2>3. CASE Head(g.in) # ID1
    <3>1. Is(t, Raw(g, <<>>))
      BY <1>1, <1>9, <2>3 DEF Is
    <3>2. RawFrom(file, a)
      BY <2>1, <2>2, <2>3 DEF RawFrom
    <3>3. PICK first \in Seq(Unit) : first = <<>> /\ Len(first) = 0
      BY EmptySeq
    <3>4. Is(a + Len(first), g.fpos - Len(g.in)) /\ \A i \in 1 .. Len(first) : first[i] = file[a + i]
      BY <1>6, <1>9, <2>1, <3>3 DEF Is
    <3>5. Is(t, Raw(g, first))
      BY <3>1, <3>3
    <3>6. ReaderOK(g) /\ InFile(g.in, g.fpos, g.eof, file) /\ g.size > 0
      BY <1>6, <1>9
    <3>7. Made(t, g)
      BY <2>1, <2>2, <3>2, <3>4, <3>5, <3>6, RawIs
    <3> QED BY <2>2, <3>7 DEF Made
  <2>4. CASE Head(g.in) = ID1
    <3>1. Is(t, Magic(g))
      BY <1>1, <1>9, <2>4 DEF Is
    <3>2. ReaderOK(g) /\ InFile(g.in, g.fpos, g.eof, file) /\ g.size > 0 /\ g.out = <<>> /\ Is(a, g.fpos - Len(g.in))
      BY <1>6, <1>9
    <3>3. Used1(file, a, "look", g.pos)
      BY <1>4, <2>2
    <3>4. Made(t, g)
      BY <1>9, <2>4, <3>1, <3>2, <3>3, MagicMade
    <3> QED BY <2>2, <3>4 DEF Made
  <2> QED BY <2>3, <2>4
<1> QED BY <1>7, <1>8, <1>9

(* A multiple of m that covers k. *)
LEMMA RoundUp ==
  ASSUME NEW k \in Nat, k > 0, NEW m \in Nat, m > 0
  PROVE  ((k + m - 1) \div m) * m \in Nat /\ ((k + m - 1) \div m) * m >= k
<1>1. PICK x \in Nat : x = k + m - 1
  OBVIOUS
<1>2. PICK q \in Int : q = x \div m
  BY DivMod
<1>3. PICK y \in 0 .. m - 1 : x = m * q + y
  BY <1>2, DivMod
<1>4. q * m = m * q /\ m * q \in Int
  OBVIOUS
<1>5. m * q >= k
  BY <1>1, <1>3, <1>4
<1>6. q * m \in Nat /\ q * m >= k
  BY <1>4, <1>5
<1> QED BY <1>1, <1>2, <1>6

(* A unit of the input buffer, or of what is to be loaded after it. *)
LEMMA AllIs ==
  ASSUME NEW f \in Seq(Unit), NEW in \in Seq(Unit), NEW p \in Nat, NEW eof, InFile(in, p, eof, f), NEW all,
         Is(all, in \o Drop(f, Lesser(p, Len(f))))
  PROVE  /\ all \in Seq(Unit) /\ Is((p - Len(in)) + Len(all), Len(f)) /\ Len(all) >= Len(in)
         /\ \A i \in 1 .. Len(all) : all[i] = f[(p - Len(in)) + i]
<1>1. Len(f) \in Nat /\ Len(in) \in Nat /\ p <= Len(f) /\ Len(in) <= p
  BY DEF InFile
<1>2. Lesser(p, Len(f)) = p
  BY <1>1 DEF Lesser
<1>3. PICK d \in Seq(Unit) : d = Drop(f, p)
  BY <1>1, DropAt
<1>4. Len(d) = Len(f) - p /\ \A i \in 1 .. Len(f) - p : d[i] = f[p + i]
  BY <1>1, <1>3, DropAt
<1>5. Is(all, in \o d)
  BY <1>2, <1>3 DEF Is
<1>6. /\ all \in Seq(Unit) /\ Len(all) = Len(in) + Len(d) /\ \A i \in 1 .. Len(in) : all[i] = in[i]
      /\ \A i \in Len(in) + 1 .. Len(in) + Len(d) : all[i] = d[i - Len(in)]
  BY <1>5, ConcatAt DEF Is
<1>7. (p - Len(in)) + Len(all) = Len(f) /\ Len(all) >= Len(in) /\ Len(all) \in Nat
  BY <1>1, <1>4, <1>6
<1>8. ASSUME NEW i \in 1 .. Len(all) PROVE all[i] = f[(p - Len(in)) + i]
  <2>1. i \in Nat /\ i >= 1 /\ i <= Len(in) + Len(d)
    BY <1>1, <1>6, <1>7
  <2>2. CASE i <= Len(in)
    <3>1. i \in 1 .. Len(in)
      BY <1>1, <2>1, <2>2
    <3> QED BY <1>6, <3>1 DEF InFile
  <2>3. CASE i > Len(in)
    <3>1. PICK j \in Nat : j = i - Len(in)
      BY <1>1, <2>1, <2>3, SMTT(60)
    <3>2. j \in 1 .. Len(f) - p /\ i \in Len(in) + 1 .. Len(in) + Len(d) /\ (p - Len(in)) + i = p + j
      <4>1. j >= 1 /\ j <= Len(d)
        BY <1>1, <2>1, <2>3, <3>1
      <4>2. j <= Len(f) - p
        BY <1>4, <4>1
      <4> QED BY <1>1, <2>1, <2>3, <3>1, <4>1, <4>2
    <3>3. all[i] = d[j]
      BY <1>6, <3>1, <3>2
    <3> QED BY <1>4, <3>2, <3>3
  <2> QED BY <1>1, <2>1, <2>2, <2>3
<1> QED BY <1>6, <1>7, <1>8 DEF Is

(* Used(): the input buffer goes on with the file. *)
LEMMA UsedIs ==
  ASSUME NEW g, ReaderOK(g), g.size > 0, file \in Seq(Unit), InFile(g.in, g.fpos, g.eof, file),
         NEW a \in Nat, Is(a, g.fpos - Len(g.in)), NEW c \in Nat, a + c <= Len(file), g.eof => c <= Len(g.in),
         NEW t, Is(t, Used(g, c))
  PROVE  /\ ReaderOK(t) /\ Alike(t, g) /\ InFile(t.in, t.fpos, t.eof, file)
         /\ Is(a + c, t.fpos - Len(t.in))
<1>1. DOMAIN g = RFields /\ g.in \in Seq(Unit) /\ g.fpos \in Nat /\ g.eof \in BOOLEAN /\ g.size \in Nat
  BY DEF ReaderOK
<1>2. PICK in \in Seq(Unit) : in = g.in
  BY <1>1
<1>3. PICK p \in Nat : p = g.fpos
  BY <1>1
<1>4. PICK size \in Nat : size = g.size /\ size > 0
  BY <1>1
<1>5. PICK eof \in BOOLEAN : eof = g.eof
  BY <1>1
<1>6. PICK all : Is(all, in \o Drop(file, Lesser(p, Len(file))))
  BY DEF Is
<1>7. PICK L \in Nat : L = Len(in)
  OBVIOUS
<1>8. PICK more : more = IF c <= L THEN 0 ELSE ((c - L + size - 1) \div size) * size
  OBVIOUS
<1>9. PICK n : n = Lesser(L + more, Len(all))
  OBVIOUS
<1>10. InFile(in, p, eof, file) /\ Is(a, p - L)
  BY <1>2, <1>3, <1>5, <1>7
<1>11. /\ all \in Seq(Unit) /\ Is((p - Len(in)) + Len(all), Len(file)) /\ Len(all) >= Len(in)
       /\ \A i \in 1 .. Len(all) : all[i] = file[(p - Len(in)) + i]
  BY <1>6, <1>10, AllIs
<1>12. PICK M \in Nat : M = Len(all)
  BY <1>11
<1>13. /\ p - L = a /\ a + M = Len(file) /\ M >= L
       /\ \A i \in 1 .. M : all[i] = file[a + i]
  BY <1>7, <1>10, <1>11, <1>12 DEF Is
<1>14. more \in Nat /\ L + more >= c /\ (c <= L => more = 0)
  <2>1. CASE c <= L
    BY <1>8, <2>1
  <2>2. CASE c > L
    <3>1. PICK k \in Nat : k = c - L /\ k > 0
      BY <2>2
    <3>2. more = ((k + size - 1) \div size) * size
      BY <1>8, <2>2, <3>1
    <3>3. more \in Nat /\ more >= k
      BY <1>4, <3>1, <3>2, RoundUp
    <3> QED BY <2>2, <3>1, <3>3
  <2> QED BY <2>1, <2>2
<1>15. n \in Nat /\ n <= M /\ n >= c /\ (n = L + more \/ (n = M /\ L + more > M))
  <2>1. c <= M
    BY <1>13, SMTT(60)
  <2> QED BY <1>9, <1>12, <1>14, <2>1 DEF Lesser
<1>24. SubSeq(all, c + 1, n) \in Seq(Unit)
  <2>1. all \in Seq(Unit) /\ n <= Len(all)
    BY <1>11, <1>12, <1>15
  <2> QED BY <1>15, <2>1
<1>16. PICK r \in Seq(Unit) : r = SubSeq(all, c + 1, n)
  BY <1>24
<1>17. Len(r) = n - c /\ \A i \in 1 .. n - c : r[i] = all[c + i]
  BY <1>11, <1>12, <1>15, <1>16
<1>18. PICK q \in Nat : q = p + n - L
  <2>1. p + n - L \in Nat
    BY <1>13, <1>15, SMTT(60)
  <2> QED BY <2>1
<1>19. PICK end \in BOOLEAN : end = (eof \/ L + more > M)
  OBVIOUS
<1>20. Inputs(t, g, r, q, end)
  <2>1. Rest(g) = Drop(file, Lesser(p, Len(file)))
    BY <1>3 DEF Rest
  <2>2. t = [g EXCEPT !.in = r, !.fpos = q, !.eof = end]
    <3> DEFINE al == g.in \o Rest(g)
               mo == IF c <= Len(g.in) THEN 0 ELSE ((c - Len(g.in) + g.size - 1) \div g.size) * g.size
               nn == Lesser(Len(g.in) + mo, Len(al))
    <3>1. t = [g EXCEPT !.in = SubSeq(al, c + 1, nn), !.fpos = @ + nn - Len(g.in),
                        !.eof = @ \/ Len(g.in) + mo > Len(al)]
      BY DEF Used, Is
    <3>2. al = all
      BY <1>2, <1>6, <2>1 DEF Is
    <3>3. mo = more
      BY <1>2, <1>4, <1>7, <1>8
    <3>4. nn = n
      BY <1>2, <1>7, <1>9, <3>2, <3>3
    <3> HIDE DEF al, mo, nn
    <3>5. /\ SubSeq(al, c + 1, nn) = r /\ g.fpos + nn - Len(g.in) = q
          /\ (g.eof \/ Len(g.in) + mo > Len(al)) = end
      BY <1>2, <1>3, <1>5, <1>7, <1>12, <1>16, <1>18, <1>19, <3>2, <3>3, <3>4
    <3> QED BY <3>1, <3>5, Zenon
  <2> QED BY <1>1, <2>2 DEF Inputs, RFields
<1>21. HasInput(t, g, r, q, end)
  BY <1>20, InputReader
<1>22. q = a + n /\ Is(a + c, q - Len(r))
  BY <1>13, <1>15, <1>17, <1>18, SMTT(60) DEF Is
<1>23. InFile(r, q, end, file)
  <2>1. q <= Len(file) /\ Len(r) <= q
    <3>1. q = a + n /\ n <= M /\ a + M = Len(file)
      BY <1>13, <1>15, <1>22
    <3>2. q <= Len(file)
      <4>1. PICK F \in Nat : F = Len(file)
        OBVIOUS
      <4> QED BY <1>15, <3>1, <4>1
    <3>3. n - c <= q
      BY <1>15, <3>1
    <3> QED BY <1>17, <3>2, <3>3
  <2>2. ASSUME NEW i \in 1 .. Len(r) PROVE r[i] = file[(q - Len(r)) + i]
    <3>1. i \in 1 .. n - c /\ c + i \in 1 .. M /\ (q - Len(r)) + i = a + (c + i)
      BY <1>15, <1>17, <1>22
    <3> QED BY <1>13, <1>17, <3>1
  <2>3. ASSUME end PROVE q = Len(file) \/ Known(file, q).how # "id1"
    <3>1. CASE L + more > M
      BY <1>13, <1>14, <1>15, <1>22, <3>1
    <3>2. CASE eof
      <4>1. n = L
        BY <1>2, <1>5, <1>7, <1>13, <1>14, <1>15, <3>2
      <4>2. q = p
        BY <1>18, <4>1
      <4> QED BY <1>10, <3>2, <4>2 DEF InFile
    <3> QED BY <1>19, <2>3, <3>1, <3>2
  <2> QED BY <2>1, <2>2, <2>3 DEF InFile
<1> QED BY <1>21, <1>22, <1>23 DEF HasInput

(* Bytes of a member are content. *)
LEMMA UsedBytes ==
  ASSUME NEW f \in Seq(Unit), NEW a \in Nat, NEW e \in Int, Used1(f, a, "data", e), NEW b \in Seq(Byte),
         a + Len(b) <= Len(f), \A i \in 1 .. Len(b) : b[i] = f[a + i]
  PROVE  Used1(f, a + Len(b), "data", e + Len(b)) /\ Gives(b, Content(f), e) /\ e \in Nat
<1>1. Len(f) \in Nat /\ Len(b) \in Nat /\ a <= Len(f) /\ Known(f, a).how = "data" /\ Len(Known(f, a).data) = e /\ b \in Seq(Unit)
  BY UnitsBytes DEF Used1
<1>2. PICK p \in Seq(Unit) : p = Take(f, a)
  BY <1>1, TakeAt
<1>3. Len(p) = a /\ \A i \in 1 .. a : p[i] = f[i]
  BY <1>1, <1>2, TakeAt
<1>4. PICK n \in Nat : n = a + Len(b)
  BY <1>1
<1>5. PICK q \in Seq(Unit) : q = Take(f, n)
  BY <1>1, <1>4, TakeAt
<1>6. Len(q) = n /\ \A i \in 1 .. n : q[i] = f[i]
  BY <1>1, <1>4, <1>5, TakeAt, ZenonT(60)
<1>7. PICK r \in Seq(Unit) : r = p \o b
  BY <1>1, ConcatAt
<1>8. /\ Len(r) = Len(p) + Len(b) /\ (\A i \in 1 .. Len(p) : r[i] = p[i])
      /\ \A i \in Len(p) + 1 .. Len(p) + Len(b) : r[i] = b[i - Len(p)]
  BY <1>1, <1>7, ConcatAt
<1>9. Len(r) = n
  BY <1>3, <1>4, <1>8
<1>10. ASSUME NEW i \in 1 .. n PROVE q[i] = r[i]
  <2>1. CASE i <= a
    BY <1>3, <1>6, <1>8, <2>1, SMTT(60)
  <2>2. CASE i > a
    <3>1. i - a \in 1 .. Len(b) /\ a + (i - a) = i /\ i \in a + 1 .. a + Len(b)
      BY <1>1, <1>4, <2>2, SMTT(60)
    <3>2. b[i - a] = f[a + (i - a)]
      BY <3>1
    <3>3. r[i] = b[i - a]
      BY <1>3, <1>8, <3>1
    <3> QED BY <1>6, <3>1, <3>2, <3>3
  <2> QED BY <2>1, <2>2
<1>11. q = r
  BY <1>6, <1>9, <1>10, SameSeq
<1>12. PICK d \in Seq(Unit) : d = Known(f, a).data
  BY <1>1, KnownType
<1>13. Known(f, n) = [how |-> "data", data |-> d \o b]
  <2>1. Decoded(p).how = "data" /\ Decoded(p).data = d
    BY <1>1, <1>2, <1>12 DEF Known
  <2>2. Decoded(r) = [how |-> "data", data |-> d \o b]
    BY <1>7, <2>1, DecodedBytes
  <2> QED BY <1>5, <1>11, <2>2 DEF Known
<1>14. PICK x \in Seq(Unit) : x = d \o b
  BY <1>1, ConcatAt
<1>15. /\ Len(x) = Len(d) + Len(b)
       /\ \A i \in Len(d) + 1 .. Len(d) + Len(b) : x[i] = b[i - Len(d)]
  BY <1>1, <1>14, ConcatAt
<1>16. Known(f, n).how = "data" /\ Known(f, n).data = x /\ Len(d) = e /\ e \in Nat
  BY <1>1, <1>12, <1>13, <1>14, SMTT(60)
<1>17. Used1(f, n, "data", e + Len(b))
  <2>1. n <= Len(f)
    BY <1>4
  <2>2. Len(x) = e + Len(b)
    BY <1>15, <1>16
  <2> QED BY <1>16, <2>1, <2>2 DEF Used1
<1>18. PICK c \in Seq(Unit) : c = Content(f)
  BY ContentType
<1>19. Len(x) <= Len(c) /\ \A i \in 1 .. Len(x) : c[i] = x[i]
  <2>1. Begins(Known(f, n).data, Content(f))
    BY <1>4, DataIsContent
  <2> QED BY <1>16, <1>18, <2>1 DEF Begins
<1>20. ASSUME NEW i \in 1 .. Len(b) PROVE e + i <= Len(c) /\ b[i] = c[e + i]
  <2>1. PICK B \in Nat : B = Len(b)
    BY <1>1
  <2>2. Len(x) = e + B /\ i \in Nat /\ i <= B /\ i >= 1 /\ Len(c) \in Nat
    BY <1>1, <1>15, <1>16, <2>1
  <2>3. e + i \in 1 .. Len(x) /\ e + i <= Len(c)
    BY <1>16, <1>19, <2>2, SMTT(60)
  <2>4. e + i \in Len(d) + 1 .. Len(d) + Len(b) /\ (e + i) - Len(d) = i
    BY <1>16, <2>1, <2>2
  <2>5. x[e + i] = b[i]
    BY <1>15, <2>4
  <2> QED BY <1>19, <2>3, <2>5
<1>21. Gives(b, c, e)
  BY <1>20 DEF Gives
<1> QED BY <1>4, <1>16, <1>17, <1>18, <1>21

(* Where the bytes of a deflate stream end. *)
EndOf(all) ==
  LET stop == {i \in 1 .. Len(all) : all[i] \notin Byte}
  IN IF stop = {} THEN Len(all) + 1 ELSE CHOOSE i \in stop : \A j \in stop : i <= j

LEMMA EndIs ==
  ASSUME NEW all \in Seq(Unit), NEW end, Is(end, EndOf(all))
  PROVE  /\ end \in Nat /\ end >= 1 /\ end <= Len(all) + 1
         /\ \A i \in 1 .. end - 1 : all[i] \in Byte
<1> DEFINE stop == {i \in 1 .. Len(all) : all[i] \notin Byte}
<1>1. end = IF stop = {} THEN Len(all) + 1 ELSE CHOOSE i \in stop : \A j \in stop : i <= j
  BY DEF EndOf, Is
<1>2. Len(all) \in Nat /\ stop \subseteq Nat
  OBVIOUS
<1>3. CASE stop = {}
  BY <1>1, <1>2, <1>3
<1>4. CASE stop # {}
  <2>1. \E i \in stop : \A j \in stop : i <= j
    BY <1>2, <1>4, SmallestIn
  <2>2. end \in stop /\ \A j \in stop : end <= j
    BY <1>1, <1>4, <2>1
  <2>3. end \in 1 .. Len(all)
    BY <2>2
  <2>4. ASSUME NEW i \in 1 .. end - 1 PROVE all[i] \in Byte
    BY <1>2, <2>2, <2>3
  <2> QED BY <1>2, <2>3, <2>4
<1> QED BY <1>3, <1>4

Turns(t, g, how, o) == t = [g EXCEPT !.how = how, !.out = o]
IsTurned(t, g, how, o) ==
  /\ ReaderOK(t) /\ t.how = how /\ t.out = o /\ t.in = g.in /\ t.fpos = g.fpos /\ t.eof = g.eof
  /\ t.pos = g.pos /\ t.seek = g.seek /\ t.raw = g.raw

LEMMA TurnReader ==
  ASSUME NEW g, ReaderOK(g), g.size > 0, NEW how \in {"LOOK", "COPY", "GZIP"}, NEW o \in Seq(Int), NEW t, Turns(t, g, how, o)
  PROVE  IsTurned(t, g, how, o)
BY DEF ReaderOK, RFields, Turns, IsTurned

(* What a reader has used once it is in mode how. *)
UsedIn(how, f, n, e) == Used1(f, n, IF how = "LOOK" THEN "look" ELSE "data", e)

(* Bytes b have come out of a member, which goes on or ends. *)
TurnsTo(g, u, how, b) ==
  /\ ReaderOK(u) /\ Alike(u, g) /\ u.size > 0 /\ InFile(u.in, u.fpos, u.eof, file)
  /\ UsedIn(how, file, u.fpos - Len(u.in), g.pos + Len(b)) /\ Gives(b, Content(file), g.pos)

MadeOut(t, g, b) == Made(t, g) /\ t.out = b

LEMMA TurnMade ==
  ASSUME NEW g, NEW u, NEW how, how = "LOOK" \/ how = "GZIP", NEW b \in Seq(Byte), TurnsTo(g, u, how, b),
         NEW t, Turns(t, u, how, b)
  PROVE  MadeOut(t, g, b)
<1>1. b \in Seq(Int)
  BY BytesInts
<1>2. IsTurned(t, u, how, b)
  <2>1. ReaderOK(u) /\ u.size > 0 /\ how \in {"LOOK", "COPY", "GZIP"}
    BY DEF TurnsTo
  <2> QED BY <1>1, <2>1, TurnReader
<1>3. t.pos = g.pos /\ t.seek = g.seek /\ DOMAIN t = RFields /\ ReaderOK(t) /\ t.out = b /\ t.how = how
  BY <1>2 DEF IsTurned, Alike, ReaderOK, TurnsTo
<1>4. InFile(t.in, t.fpos, t.eof, file) /\ Gives(b, Content(file), g.pos)
  BY <1>2 DEF IsTurned, TurnsTo
<1>5. UsedIn(how, file, t.fpos - Len(t.in), t.pos + Len(t.out))
  BY <1>2, <1>3 DEF TurnsTo, IsTurned
<1>6. ModeOK(t, file)
  BY <1>3, <1>4, <1>5 DEF ModeOK, InMember, UsedIn
<1> QED BY <1>3, <1>4, <1>6 DEF Made, MadeOut
(* What gz_decomp() has before it. *)
Ahead(g) == g.in \o (IF g.eof \/ failing THEN <<>> ELSE Rest(g))

LEMMA AheadIs ==
  ASSUME NEW g, ReaderOK(g), file \in Seq(Unit), InFile(g.in, g.fpos, g.eof, file), NEW a, Is(a, g.fpos - Len(g.in)),
         NEW all, Is(all, Ahead(g))
  PROVE  /\ all \in Seq(Unit) /\ a \in Nat /\ a + Len(all) <= Len(file) /\ Len(all) \in Nat
         /\ g.eof => Len(all) = Len(g.in)
         /\ \A i \in 1 .. Len(all) : all[i] = file[a + i]
<1>1. g.in \in Seq(Unit) /\ g.fpos \in Nat /\ g.eof \in BOOLEAN /\ Len(file) \in Nat
  BY DEF ReaderOK
<1>2. PICK in \in Seq(Unit) : in = g.in
  BY <1>1
<1>3. PICK p \in Nat : p = g.fpos
  BY <1>1
<1>4. PICK eof : eof = g.eof
  OBVIOUS
<1>5. InFile(in, p, eof, file) /\ Is(a, p - Len(in))
  BY <1>2, <1>3, <1>4
<1>6. /\ p <= Len(file) /\ Len(in) <= p /\ a = p - Len(in) /\ Len(in) \in Nat
      /\ \A i \in 1 .. Len(in) : in[i] = file[(p - Len(in)) + i]
  <2>1. /\ p <= Len(file) /\ Len(in) <= p
        /\ \A i \in 1 .. Len(in) : in[i] = file[(p - Len(in)) + i]
    BY <1>5 DEF InFile
  <2>2. a = p - Len(in) /\ Len(in) \in Nat
    BY <1>5 DEF Is
  <2> QED BY <2>1, <2>2
<1>7. CASE g.eof \/ failing
  <2>1. Ahead(g) = in \o <<>>
    BY <1>2, <1>7 DEF Ahead
  <2>2. all = in
    BY <2>1, EmptyConcat DEF Is
  <2>3. a \in Nat /\ a + Len(in) <= Len(file)
    BY <1>6
  <2>4. \A i \in 1 .. Len(in) : in[i] = file[a + i]
    BY <1>6
  <2> QED BY <1>2, <1>6, <2>2, <2>3, <2>4
<1>8. CASE ~(g.eof \/ failing)
  <2>1. Is(all, in \o Drop(file, Lesser(p, Len(file))))
    BY <1>2, <1>3, <1>8 DEF Ahead, Rest, Is
  <2>2. /\ all \in Seq(Unit) /\ Is((p - Len(in)) + Len(all), Len(file)) /\ Len(all) >= Len(in)
        /\ \A i \in 1 .. Len(all) : all[i] = file[(p - Len(in)) + i]
    BY <1>5, <2>1, AllIs
  <2>3. a \in Nat
    BY <1>6
  <2>4. (\A i \in 1 .. Len(all) : all[i] = file[a + i]) /\ a + Len(all) = Len(file)
    BY <1>6, <2>2 DEF Is
  <2>5. a + Len(all) <= Len(file)
    BY <1>1, <2>4
  <2> QED BY <1>8, <2>2, <2>3, <2>4, <2>5
<1> QED BY <1>7, <1>8

LEMMA DecompMade ==
  ASSUME NEW g, ReaderOK(g), ModeOK(g, file), g.how = "GZIP", g.out = <<>>, file \in Seq(Unit), NEW n \in Nat,
         NEW t, Is(t, gz_decomp(g, n))
  PROVE  Made(t, g) /\ (t.err = "OK" => Len(t.out) <= n)
<1> DEFINE all  == Ahead(g)
           end  == EndOf(all)
           made == Lesser(n, end - 1)
           data == SubSeq(all, 1, made)
           after == Used(g, made)
           atEnd == made = end - 1 /\ end <= Len(all) /\ (made < n \/ after.in # <<>>)
           over == made < n /\ end > Len(all)
<1>1. t = CASE over ->
                 IF failing /\ ~g.eof THEN [g EXCEPT !.in = <<>>, !.err = "ERRNO"]
                 ELSE [Exhausted(g) EXCEPT !.err = "DATA"]
            [] atEnd /\ all[end] = STREAM_END -> Decompressed(g, all, data, end)
            [] atEnd /\ all[end] # STREAM_END -> [Used(g, end) EXCEPT !.err = "DATA"]
            [] OTHER -> [after EXCEPT !.out = data]
  BY DEF Is, gz_decomp, Ahead, EndOf
<1>2. PICK a : Is(a, g.fpos - Len(g.in))
  BY DEF Is
<1>3. InFile(g.in, g.fpos, g.eof, file) /\ Used1(file, a, "data", g.pos) /\ g.size > 0 /\ DOMAIN g = RFields /\ g.pos \in Int
  <2>1. InMember(g, file, "data")
    BY DEF ModeOK
  <2>2. g.pos + Len(g.out) = g.pos
    BY DEF ReaderOK
  <2> QED BY <1>2, <2>1, <2>2 DEF InMember, Is, ReaderOK
<1>4. Is(all, Ahead(g)) /\ Is(end, EndOf(all))
  BY DEF Is
<1> HIDE DEF all, end
<1>14. InFile(g.in, g.fpos, g.eof, file) /\ Is(all, Ahead(g))
  BY <1>3, <1>4
<1>5. /\ all \in Seq(Unit) /\ a \in Nat /\ a + Len(all) <= Len(file) /\ Len(all) \in Nat
      /\ g.eof => Len(all) = Len(g.in)
      /\ \A i \in 1 .. Len(all) : all[i] = file[a + i]
  BY <1>2, <1>14, AheadIs, SMTT(60)
<1>6. /\ end \in Nat /\ end >= 1 /\ end <= Len(all) + 1
      /\ \A i \in 1 .. end - 1 : all[i] \in Byte
  BY <1>4, <1>5, EndIs
<1>7. made \in Nat /\ made <= n /\ made <= end - 1 /\ made <= Len(all) /\ (made = n \/ made = end - 1)
  BY <1>5, <1>6 DEF Lesser
<1> HIDE DEF made
<1>8. PICK b \in Seq(Byte) : b = data /\ Len(b) = made /\ \A i \in 1 .. made : b[i] = all[i]
  <2>1. data \in Seq(Unit) /\ Len(data) = made /\ \A i \in 1 .. made : data[i] = all[i]
    BY <1>5, <1>7
  <2>2. \A i \in 1 .. made : all[i] \in Byte
    BY <1>6, <1>7
  <2>3. data = [i \in 1 .. made |-> data[i]]
    BY <2>1
  <2> HIDE DEF data
  <2>4. data \in [1 .. made -> Byte]
    BY <2>1, <2>2, <2>3
  <2>5. data \in Seq(Byte)
    BY <1>7, <2>4
  <2> QED BY <2>1, <2>5
<1> HIDE DEF data
<1>9. Used1(file, a + made, "data", g.pos + made) /\ Gives(b, Content(file), g.pos)
  <2>1. a + Len(b) <= Len(file)
    BY <1>5, <1>7, <1>8
  <2>2. ASSUME NEW i \in 1 .. Len(b) PROVE b[i] = file[a + i]
    <3>1. i \in 1 .. made /\ i \in 1 .. Len(all)
      BY <1>5, <1>7, <1>8
    <3> QED BY <1>5, <1>8, <3>1
  <2>3. Used1(file, a + Len(b), "data", g.pos + Len(b)) /\ Gives(b, Content(file), g.pos)
    BY <1>3, <1>5, <2>1, <2>2, UsedBytes
  <2> QED BY <1>8, <2>3
<1> HIDE DEF over, atEnd
<1>10. CASE over
  <2>1. t = [g EXCEPT !.in = <<>>, !.err = "ERRNO"] \/ t = [Exhausted(g) EXCEPT !.err = "DATA"]
    <3>1. ~atEnd
      BY <1>5, <1>6, <1>10 DEF atEnd, over
    <3> QED BY <1>1, <1>10, <3>1
  <2>2. DOMAIN t = RFields /\ t.err # "OK"
    BY <1>3, <2>1 DEF RFields, Exhausted
  <2> QED BY <2>2 DEF Made
<1>11. CASE ~over /\ atEnd /\ all[end] # STREAM_END
  <2>1. t = [Used(g, end) EXCEPT !.err = "DATA"]
    BY <1>1, <1>11
  <2>2. DOMAIN t = RFields /\ t.err # "OK"
    BY <1>3, <2>1 DEF RFields, Used
  <2> QED BY <2>2 DEF Made
<1>12. CASE atEnd /\ all[end] = STREAM_END
  <2>4. t = Decompressed(g, all, data, end) \/ over
    BY <1>1, <1>12
  <2>5. made = end - 1 /\ end <= Len(all) /\ ~over
    BY <1>5, <1>6, <1>12 DEF atEnd, over
  <2>1. t = Decompressed(g, all, data, end) /\ made = end - 1 /\ end <= Len(all)
    BY <2>4, <2>5
  <2>2. CASE end < Len(all) /\ all[end + 1] = TRAILER
    <3>1. PICK u : Is(u, Used(g, end + 1))
      BY DEF Is
    <3>2. Turns(t, u, "LOOK", b)
      BY <1>8, <2>1, <2>2, <3>1 DEF Decompressed, Turns, Is
    <3>3. a + (end + 1) <= Len(file) /\ end + 1 \in Nat /\ (g.eof => end + 1 <= Len(g.in))
      BY <1>5, <1>6, <2>2
    <3>4. /\ ReaderOK(u) /\ Alike(u, g) /\ InFile(u.in, u.fpos, u.eof, file)
          /\ Is(a + (end + 1), u.fpos - Len(u.in))
      BY <1>2, <1>3, <1>5, <3>1, <3>3, UsedIs
    <3>5. PICK x \in Nat : x = a + made
      BY <1>5, <1>7
    <3>6. PICK y \in Nat : y = x + 1
      BY <3>5
    <3>7. /\ x + 1 = a + end /\ y + 1 = a + (end + 1) /\ x < Len(file) /\ y < Len(file)
      <4>1. PICK m \in Nat : m = Len(all)
        BY <1>5
      <4>2. PICK k \in Nat : k = Len(file)
        OBVIOUS
      <4>3. end < m /\ a + m <= k /\ made = end - 1
        BY <1>5, <2>1, <2>2, <4>1, <4>2
      <4>4. x + 1 = a + end /\ y + 1 = a + (end + 1) /\ x < k /\ y < k
        BY <1>5, <1>6, <3>5, <3>6, <4>3
      <4> QED BY <4>2, <4>4
    <3>8. file[x + 1] = STREAM_END /\ file[y + 1] = TRAILER
      <4>1. end \in 1 .. Len(all) /\ end + 1 \in 1 .. Len(all)
        BY <1>5, <1>6, <2>2, SMTT(60)
      <4> QED BY <1>5, <1>12, <2>2, <3>7, <4>1, SMTT(60)
    <3>9. Used1(file, x + 1, "end", g.pos + made)
      <4>1. Is("end", After("data", file[x + 1]))
        BY <3>8 DEF Is, After, STREAM_END, Byte
      <4>2. Used1(file, x, "data", g.pos + made)
        BY <1>9, <3>5
      <4> QED BY <3>7, <4>1, <4>2, UsedNext
    <3>10. Used1(file, y + 1, "look", g.pos + made)
      <4>1. Is("look", After("end", file[y + 1]))
        BY <3>8 DEF Is, After
      <4>2. Used1(file, y, "end", g.pos + made)
        BY <3>6, <3>9
      <4> QED BY <3>7, <4>1, <4>2, UsedNext
    <3>12. TurnsTo(g, u, "LOOK", b)
      BY <1>3, <1>8, <1>9, <3>4, <3>7, <3>10 DEF TurnsTo, UsedIn, Is, Alike
    <3>13. MadeOut(t, g, b)
      BY <3>2, <3>12, TurnMade
    <3> QED BY <1>7, <1>8, <3>13 DEF MadeOut
  <2>3. CASE ~(end < Len(all) /\ all[end + 1] = TRAILER)
    <3>1. PICK u : u = Used(g, Lesser(end + 1, Len(all)))
      OBVIOUS
    <3>2. t = [u EXCEPT !.err = "DATA", !.out = data, !.eof = @ \/ (end = Len(all) /\ ~failing)]
      BY <2>1, <2>3, <3>1 DEF Decompressed
    <3>3. DOMAIN u = RFields
      BY <1>3, <3>1 DEF RFields, Used
    <3>4. DOMAIN t = RFields /\ t.err # "OK"
      BY <3>2, <3>3 DEF RFields
    <3> QED BY <3>4 DEF Made
  <2> QED BY <2>2, <2>3
<1>13. CASE ~over /\ ~atEnd
  <2>1. PICK u : Is(u, Used(g, made))
    BY DEF Is
  <2>2. t = [u EXCEPT !.out = b]
    BY <1>1, <1>8, <1>13, <2>1 DEF Is
  <2>3. a + made <= Len(file) /\ (g.eof => made <= Len(g.in))
    BY <1>5, <1>7
  <2>4. /\ ReaderOK(u) /\ Alike(u, g) /\ InFile(u.in, u.fpos, u.eof, file)
        /\ Is(a + made, u.fpos - Len(u.in))
    BY <1>2, <1>3, <1>5, <1>7, <2>1, <2>3, UsedIs
  <2>5. Turns(t, u, "GZIP", b)
    BY <2>2, <2>4 DEF Turns, ReaderOK, RFields, Alike
  <2>6. TurnsTo(g, u, "GZIP", b)
    BY <1>3, <1>8, <1>9, <2>4 DEF TurnsTo, UsedIn, Is, Alike
  <2>8. MadeOut(t, g, b)
    BY <2>5, <2>6, TurnMade
  <2> QED BY <1>7, <1>8, <2>8 DEF MadeOut
<1> QED BY <1>10, <1>11, <1>12, <1>13

LEMMA EndNat ==
  ASSUME NEW g, ReaderOK(g), NEW f \in Seq(Unit), ModeOK(g, f)
  PROVE  g.pos + Len(g.out) \in Nat
<1>1. PICK e \in Int : e = g.pos + Len(g.out)
  <2>1. g.pos \in Int /\ Len(g.out) \in Nat
    BY DEF ReaderOK
  <2>2. g.pos + Len(g.out) \in Int
    BY <2>1
  <2> QED BY <2>2
<1>2. ASSUME NEW n, NEW how, Used1(f, n, how, e) PROVE e \in Nat
  <2>1. Known(f, n).data \in Seq(Unit)
    BY <1>2, KnownType DEF Used1
  <2> QED BY <1>2, <2>1 DEF Used1
<1>3. CASE g.how = "LOOK"
  BY <1>1, <1>2, <1>3 DEF ModeOK, InMember
<1>4. CASE g.how = "GZIP"
  BY <1>1, <1>2, <1>4 DEF ModeOK, InMember
<1>5. CASE g.how = "COPY"
  <2>1. PICK r \in Nat : Copies(f, r, g.raw, g.fpos, e)
    BY <1>1, <1>5 DEF ModeOK, InRaw
  <2>2. r <= Len(f) /\ g.raw \in Int /\ g.fpos \in Nat
    BY <2>1 DEF Copies, RawFrom, ReaderOK
  <2>3. Known(f, r).data \in Seq(Unit)
    BY <2>2, KnownType
  <2>4. PICK x \in Nat : x = g.raw
    BY <2>1, <2>3 DEF Copies
  <2>5. PICK p \in Nat : p = g.fpos
    BY <2>2
  <2>6. p >= r /\ p - r = e - x
    BY <2>1, <2>4, <2>5 DEF Copies
  <2>7. e \in Nat
    BY <2>6
  <2> QED BY <1>1, <2>7
<1> QED BY <1>1, <1>3, <1>4, <1>5 DEF ReaderOK

(* Units that are copied: o in the output buffer, or handed to the caller. *)
Loads(t, g, p, eof, o, x) == t = [g EXCEPT !.fpos = p, !.eof = eof, !.out = o, !.pos = x]
HasLoaded(t, g, p, eof, o, x) ==
  /\ ReaderOK(t) /\ t.fpos = p /\ t.out = o /\ t.pos = x /\ t.in = g.in /\ t.how = g.how
  /\ t.raw = g.raw /\ t.seek = g.seek

LEMMA LoadReader ==
  ASSUME NEW g, ReaderOK(g), NEW p \in Nat, NEW eof \in BOOLEAN, NEW o \in Seq(Int), NEW x \in Int, NEW t,
         Loads(t, g, p, eof, o, x)
  PROVE  HasLoaded(t, g, p, eof, o, x)
BY DEF ReaderOK, RFields, Loads, HasLoaded

(* What gz_load() gives where the file is copied. *)
CopiesOn(l, g) ==
  /\ l \in Seq(Unit) /\ Len(l) \in Nat /\ Gives(l, Content(file), g.pos)
  /\ \E r \in Nat : Copies(file, r, g.raw, g.fpos + Len(l), g.pos + Len(l))

LEMMA LoadCopies ==
  ASSUME NEW g, ReaderOK(g), ModeOK(g, file), g.how = "COPY", g.out = <<>>, file \in Seq(Unit), NEW n \in Nat,
         NEW l, Is(l, gz_load(g, n))
  PROVE  CopiesOn(l, g) /\ Len(l) <= n
<1>1. PICK p \in Nat : p = g.fpos
  BY DEF ReaderOK
<1>2. PICK e \in Int : e = g.pos
  BY DEF ReaderOK
<1>3. PICK raw \in Int : raw = g.raw
  BY DEF ReaderOK
<1>4. PICK r \in Nat : Copies(file, r, raw, p, e)
  <2>1. e = g.pos + Len(g.out)
    BY <1>2
  <2> QED BY <1>1, <1>3, <2>1 DEF ModeOK, InRaw
<1>5. Is(l, Take(Drop(file, Lesser(p, Len(file))), n))
  BY <1>1 DEF Is, gz_load, Rest
<1>6. /\ l \in Seq(Unit) /\ Len(l) \in Nat /\ Len(l) <= n
      /\ p > Len(file) => l = <<>>
      /\ p <= Len(file) => p + Len(l) <= Len(file) /\ (Len(l) < n => p + Len(l) = Len(file))
      /\ \A i \in 1 .. Len(l) : l[i] = file[p + i]
  BY <1>5, LoadIs
<1>7. l \in Seq(Unit) /\ (p + Len(l) <= Len(file) \/ l = <<>>) /\ \A i \in 1 .. Len(l) : l[i] = file[p + i]
  BY <1>6
<1>8. Gives(l, Content(file), e) /\ Copies(file, r, raw, p + Len(l), e + Len(l))
  BY <1>4, <1>7, CopiesGive, SMTT(60)
<1> QED BY <1>1, <1>2, <1>3, <1>6, <1>8 DEF CopiesOn

(* gz_make() once the header has been looked for. *)
Rest2(g) ==
  CASE g.how = "COPY" -> IF failing THEN [g EXCEPT !.err = "ERRNO"]
                         ELSE [Loaded(g, 2 * g.size) EXCEPT !.out = gz_load(g, 2 * g.size)]
    [] g.how = "GZIP" -> gz_decomp(g, 2 * g.size)
    [] OTHER -> g

LEMMA RestMade ==
  ASSUME NEW g, ReaderOK(g), ModeOK(g, file), g.out = <<>>, file \in Seq(Unit), NEW t, Is(t, Rest2(g))
  PROVE  Made(t, g)
<1>1. PICK n \in Nat : n = 2 * g.size
  <2>1. 2 * g.size \in Nat
    BY DEF ReaderOK
  <2> QED BY <2>1
<1>2. CASE g.how = "COPY" /\ failing
  <2>1. t = [g EXCEPT !.err = "ERRNO"]
    BY <1>2 DEF Rest2, Is
  <2> QED BY <2>1 DEF Made, RFields, ReaderOK
<1>3. CASE g.how = "COPY" /\ ~failing
  <2>1. PICK l : Is(l, gz_load(g, n))
    BY DEF Is
  <2>2. CopiesOn(l, g)
    BY <1>3, <2>1, LoadCopies
  <2>3. l \in Seq(Unit) /\ Len(l) \in Nat /\ g.fpos \in Nat /\ g.eof \in BOOLEAN /\ g.pos \in Int /\ DOMAIN g = RFields
    BY <2>2 DEF CopiesOn, ReaderOK
  <2>4. PICK p \in Nat : p = g.fpos + Len(l)
    BY <2>3
  <2>5. PICK eof \in BOOLEAN : eof = (g.eof \/ Len(l) < n)
    OBVIOUS
  <2>6. PICK x \in Int : x = g.pos
    BY <2>3
  <2>7. Loads(t, g, p, eof, l, x)
    <3>1. t = [Loaded(g, 2 * g.size) EXCEPT !.out = gz_load(g, 2 * g.size)]
      BY <1>3 DEF Rest2, Is
    <3>2. t = [Loaded(g, n) EXCEPT !.out = l]
      BY <1>1, <2>1, <3>1 DEF Is
    <3>3. Loaded(g, n) = [g EXCEPT !.fpos = g.fpos + Len(l), !.eof = g.eof \/ Len(l) < n]
      BY <2>1, Zenon DEF Is, Loaded
    <3>4. t = [[g EXCEPT !.fpos = p, !.eof = eof] EXCEPT !.out = l]
      BY <2>4, <2>5, <3>2, <3>3
    <3> QED BY <2>3, <2>6, <3>4 DEF Loads, RFields
  <2>8. l \in Seq(Int)
    BY <2>3, UnitsInts
  <2>9. HasLoaded(t, g, p, eof, l, x)
    BY <2>7, <2>8, LoadReader
  <2>10. ReaderOK(t) /\ t.pos = g.pos /\ t.seek = g.seek /\ t.out = l /\ t.in = g.in /\ t.how = "COPY" /\ t.raw = g.raw
         /\ t.fpos = g.fpos + Len(l)
    BY <1>3, <2>4, <2>6, <2>9 DEF HasLoaded
  <2>11. g.in = <<>>
    BY <1>3 DEF ModeOK, InRaw
  <2>12. InRaw(t, file)
    BY <2>2, <2>10, <2>11 DEF InRaw, CopiesOn
  <2>13. ModeOK(t, file)
    BY <2>10, <2>12 DEF ModeOK
  <2>14. DOMAIN t = RFields /\ Gives(t.out, Content(file), g.pos)
    BY <2>2, <2>10 DEF ReaderOK, CopiesOn
  <2> QED BY <2>10, <2>13, <2>14 DEF Made
<1>4. CASE g.how = "GZIP"
  <2>1. Is(t, gz_decomp(g, n))
    BY <1>1, <1>4 DEF Rest2, Is
  <2> QED BY <1>4, <2>1, DecompMade
<1>5. CASE g.how = "LOOK"
  <2>1. t = g
    BY <1>5 DEF Rest2, Is
  <2>2. Gives(g.out, Content(file), g.pos)
    BY DEF Gives
  <2>3. DOMAIN g = RFields
    BY DEF ReaderOK
  <2> QED BY <2>1, <2>2, <2>3 DEF Made
<1> QED BY <1>2, <1>3, <1>4, <1>5 DEF ReaderOK

(* gz_make() *)
LEMMA MakeMade ==
  ASSUME NEW g0, ReaderOK(g0), ModeOK(g0, file), g0.out = <<>>, file \in Seq(Unit), NEW t, Is(t, gz_make(g0))
  PROVE  Made(t, g0)
<1>1. PICK g : Is(g, IF g0.how = "LOOK" THEN gz_head(g0) ELSE g0)
  BY DEF Is
<1>2. Made(g, g0)
  <2>1. CASE g0.how = "LOOK"
    <3>1. Is(g, gz_head(g0))
      BY <1>1, <2>1 DEF Is
    <3> QED BY <2>1, <3>1, HeadMade
  <2>2. CASE g0.how # "LOOK"
    <3>1. g = g0
      BY <1>1, <2>2 DEF Is
    <3>2. Gives(g0.out, Content(file), g0.pos) /\ DOMAIN g0 = RFields
      BY DEF Gives, ReaderOK
    <3> QED BY <3>1, <3>2 DEF Made
  <2> QED BY <2>1, <2>2
<1>3. t = IF g.err # "OK" \/ g.out # <<>> THEN g ELSE Rest2(g)
  BY <1>1 DEF Is, gz_make, Rest2
<1>4. CASE g.err # "OK" \/ g.out # <<>>
  BY <1>2, <1>3, <1>4
<1>5. CASE g.err = "OK" /\ g.out = <<>>
  <2>1. ReaderOK(g) /\ ModeOK(g, file) /\ g.pos = g0.pos /\ g.seek = g0.seek
    BY <1>2, <1>5 DEF Made
  <2>2. Is(t, Rest2(g))
    BY <1>3, <1>5 DEF Is
  <2>3. ReaderOK(g) /\ ModeOK(g, file)
    BY <2>1
  <2>4. Made(t, g)
    BY <1>5, <2>2, <2>3, RestMade
  <2> QED BY <2>1, <2>4 DEF Made
<1> QED BY <1>4, <1>5

(* gz_head() after an error. *)
LEMMA AvailErr ==
  ASSUME NEW g, g.err # "OK"
  PROVE  gz_avail(g) = g
BY DEF gz_avail

LEMMA Next1Err ==
  ASSUME NEW g, DOMAIN g = RFields, g.err # "OK", NEW t, Is(t, Next1(g))
  PROVE  DOMAIN t = RFields /\ t.err # "OK"
BY DEF Next1, RFields, Is

LEMMA RawErr ==
  ASSUME NEW g, DOMAIN g = RFields, g.err # "OK", NEW first, NEW t, Is(t, Raw(g, first))
  PROVE  DOMAIN t = RFields /\ t.err # "OK"
BY DEF Raw, RFields, Is

LEMMA HeadErr ==
  ASSUME NEW g0, DOMAIN g0 = RFields, g0.err # "OK", NEW t, Is(t, gz_head(g0))
  PROVE  DOMAIN t = RFields /\ t.err # "OK"
<1>1. PICK f0 : Is(f0, [g0 EXCEPT !.size = g0.want])
  BY DEF Is
<1>2. DOMAIN f0 = RFields /\ f0.err # "OK" /\ gz_avail(f0) = f0
  <2>1. DOMAIN f0 = RFields /\ f0.err # "OK"
    BY <1>1 DEF RFields, Is
  <2> QED BY <2>1, AvailErr
<1>3. PICK x : Is(x, Next1(f0))
  BY DEF Is
<1>4. DOMAIN x = RFields /\ x.err # "OK"
  BY <1>2, <1>3, Next1Err
<1>5. gz_avail(x) = x
  BY <1>4, AvailErr
<1>6. PICK y : Is(y, Next1(x))
  BY DEF Is
<1>7. DOMAIN y = RFields /\ y.err # "OK"
  BY <1>4, <1>6, Next1Err
<1>8. gz_avail(y) = y
  BY <1>7, AvailErr
<1>9. PICK z : Is(z, Next1(y))
  BY DEF Is
<1>10. DOMAIN z = RFields /\ z.err # "OK"
  BY <1>7, <1>9, Next1Err
<1>11. \/ t = f0 \/ t = Raw(f0, <<>>) \/ t = x \/ t = Raw(x, <<ID1>>)
       \/ t = [z EXCEPT !.err = "DATA"] \/ t = [z EXCEPT !.how = "GZIP", !.direct = FALSE]
  <2>1. t = CASE f0.in = <<>>          -> f0
       [] f0.in # <<>> /\ Head(f0.in) # ID1 -> Raw(f0, <<>>)
       [] OTHER ->
          IF x.in = <<>> /\ x.err # "OK" THEN x
          ELSE IF x.in = <<>> \/ (x.in # <<>> /\ Head(x.in) # ID2) THEN Raw(x, <<ID1>>)
          ELSE IF y.in = <<>> \/ (y.in # <<>> /\ Head(y.in) # DEFLATED)
          THEN [z EXCEPT !.err = "DATA"]
          ELSE [z EXCEPT !.how = "GZIP", !.direct = FALSE]
    BY <1>1, <1>2, <1>3, <1>5, <1>6, <1>8, <1>9 DEF Is, gz_head
  <2> QED BY <2>1
<1>12. CASE t = f0 \/ t = x
  BY <1>2, <1>4, <1>12
<1>13. CASE t = Raw(f0, <<>>)
  BY <1>2, <1>13, RawErr DEF Is
<1>14. CASE t = Raw(x, <<ID1>>)
  BY <1>4, <1>14, RawErr DEF Is
<1>15. CASE t = [z EXCEPT !.err = "DATA"] \/ t = [z EXCEPT !.how = "GZIP", !.direct = FALSE]
  BY <1>10, <1>15 DEF RFields
<1> QED BY <1>11, <1>12, <1>13, <1>14, <1>15

(* b is with the caller, o in the output buffer. *)
SegOf(b, o, c, e) == Seg(b \o o, c, e)

LEMMA SegOfEmpty ==
  ASSUME NEW c \in Seq(Unit), NEW e \in Int
  PROVE  SegOf(<<>>, <<>>, c, e)
<1>1. <<>> \o <<>> = <<>> /\ Len(<<>>) = 0
  OBVIOUS
<1>2. Segs(<<>>, c, e, 0)
  BY <1>1 DEF Segs
<1>3. Seg(<<>>, c, e)
  BY <1>1, <1>2 DEF Seg
<1> QED BY <1>1, <1>3 DEF SegOf

LEMMA SegOfSkip ==
  ASSUME NEW b \in Seq(Int), NEW o \in Seq(Int), NEW c \in Seq(Unit), NEW e \in Int, SegOf(b, o, c, e),
         NEW n \in Nat, n <= Len(o), NEW d, Is(d, Drop(o, n))
  PROVE  SegOf(<<>>, d, c, e)
<1>1. PICK s \in Seq(Int) : s = b \o o
  BY ConcatAt
<1>2. /\ Len(s) = Len(b) + Len(o) /\ \A i \in Len(b) + 1 .. Len(b) + Len(o) : s[i] = o[i - Len(b)]
  BY <1>1, ConcatAt
<1>3. PICK m \in Nat : m = Len(b) + n
  OBVIOUS
<1>4. m <= Len(s)
  BY <1>2, <1>3
<1>5. PICK x \in Seq(Int) : x = Drop(s, m)
  BY <1>4, DropAt
<1>6. Len(x) = Len(s) - m /\ \A i \in 1 .. Len(s) - m : x[i] = s[m + i]
  BY <1>4, <1>5, DropAt
<1>7. PICK y \in Seq(Int) : y = Drop(o, n)
  BY DropAt
<1>8. Len(y) = Len(o) - n /\ \A i \in 1 .. Len(o) - n : y[i] = o[n + i]
  BY <1>7, DropAt
<1>9. Len(x) = Len(y)
  BY <1>2, <1>3, <1>6, <1>8
<1>10. ASSUME NEW i \in 1 .. Len(x) PROVE x[i] = y[i]
  <2>1. PICK B \in Nat : B = Len(b)
    OBVIOUS
  <2>2. PICK O \in Nat : O = Len(o)
    OBVIOUS
  <2>3. m = B + n /\ Len(s) = B + O /\ Len(x) = O - n /\ n <= O
    BY <1>2, <1>3, <1>8, <1>9, <2>1, <2>2
  <2>4. m + i \in B + 1 .. B + O /\ (m + i) - B = n + i /\ i \in 1 .. O - n /\ i \in 1 .. Len(s) - m
    BY <2>3
  <2>5. s[m + i] = o[n + i]
    BY <1>2, <2>1, <2>2, <2>4
  <2> QED BY <1>6, <1>8, <2>2, <2>4, <2>5
<1>11. x = y
  BY <1>9, <1>10, SameSeq
<1>12. Seg(s, c, e)
  BY <1>1 DEF SegOf
<1>13. Seg(x, c, e)
  BY <1>4, <1>5, <1>12, SegDrop
<1>14. d = x /\ <<>> \o x = x
  BY <1>7, <1>11, EmptyConcat DEF Is
<1> QED BY <1>13, <1>14 DEF SegOf

LEMMA SegOfNone ==
  ASSUME NEW b \in Seq(Int), NEW o \in Seq(Int), NEW c \in Seq(Unit), NEW e \in Int, SegOf(b, o, c, e)
  PROVE  SegOf(<<>>, o, c, e)
<1>1. Is(o, Drop(o, 0)) /\ 0 <= Len(o)
  <2>1. PICK d \in Seq(Int) : d = Drop(o, 0)
    BY DropAt
  <2>2. Len(d) = Len(o) /\ \A i \in 1 .. Len(o) : d[i] = o[i]
    BY <2>1 DEF Drop
  <2> QED BY <2>1, <2>2, SameSeq, SMTT(60) DEF Is
<1> QED BY <1>1, SegOfSkip

LEMMA SegOfTake ==
  ASSUME NEW b \in Seq(Int), NEW o \in Seq(Int), NEW c \in Seq(Unit), NEW e \in Int, SegOf(b, o, c, e),
         NEW n \in Nat, n <= Len(o), NEW d, Is(d, Drop(o, n)), NEW h, Is(h, b \o Take(o, n))
  PROVE  SegOf(h, d, c, e)
<1>1. PICK x \in Seq(Int) : x = Take(o, n)
  BY TakeAt
<1>2. PICK y \in Seq(Int) : y = Drop(o, n)
  BY DropAt
<1>3. x \o y = o
  BY <1>1, <1>2, TakeDrop
<1>4. Assoc(b, x, y)
  BY AssocIs
<1>5. h = b \o x /\ d = y
  BY <1>1, <1>2 DEF Is
<1> QED BY <1>3, <1>4, <1>5, Zenon DEF Assoc, SegOf

LEMMA SegOfMore ==
  ASSUME NEW b \in Seq(Int), NEW c \in Seq(Unit), NEW e \in Nat, SegOf(b, <<>>, c, e), NEW o \in Seq(Int), Gives(o, c, e),
         NEW x, Is(x, e + Len(o)), NEW h, Is(h, b \o o)
  PROVE  SegOf(b, o, c, x) /\ SegOf(h, <<>>, c, x)
<1>1. b \o <<>> = b
  BY EmptyConcat
<1>2. Seg(b, c, e)
  BY <1>1 DEF SegOf
<1>3. Seg(b \o o, c, e + Len(o))
  BY <1>2, SegMore
<1>4. Seg(h, c, x)
  BY <1>3 DEF Is
<1>5. h \in Seq(Int)
  BY ConcatAt DEF Is
<1>6. h \o <<>> = h
  BY <1>5, EmptyConcat
<1> QED BY <1>3, <1>4, <1>6, Zenon DEF SegOf, Is

LEMMA SegOfPush ==
  ASSUME NEW o \in Seq(Int), NEW c \in Seq(Unit), NEW e \in Int, SegOf(<<>>, o, c, e), NEW p, Is(p, <<PUSHED>> \o o)
  PROVE  SegOf(<<>>, p, c, e) /\ p \in Seq(Int) /\ Len(p) = Len(o) + 1
<1>1. <<>> \o o = o
  BY EmptyConcat
<1>2. Seg(o, c, e)
  BY <1>1 DEF SegOf
<1>3. Seg(p, c, e) /\ p \in Seq(Int) /\ Len(p) = Len(o) + 1
  BY <1>2, SegPush DEF Is
<1>4. <<>> \o p = p
  BY <1>3, EmptyConcat
<1> QED BY <1>3, <1>4 DEF SegOf

LEMMA SegOfGrow ==
  ASSUME NEW b \in Seq(Int), NEW o \in Seq(Int), NEW c \in Seq(Unit), NEW h \in Seq(Unit), Begins(c, h), NEW e \in Int,
         SegOf(b, o, c, e)
  PROVE  SegOf(b, o, h, e)
<1>1. b \o o \in Seq(Int)
  BY ConcatAt
<1> QED BY <1>1, SegGrow DEF SegOf

CallFields == {"op", "over", "left", "buf", "odd"}

RCallOK(k) == DOMAIN k = CallFields /\ k.over \in BOOLEAN /\ k.left \in Nat /\ k.buf \in Seq(Int)

(* A reader that has not failed, with call k made or in progress and n bytes left to skip:
   what it has handed over and what it holds is what the file holds. *)
Stands(g, k, n, f) ==
  /\ ReaderOK(g) /\ ModeOK(g, f) /\ RCallOK(k) /\ n \in Nat
  /\ n > 0 => k.buf = <<>> /\ ~k.over /\ k.op # "closed"
  /\ SegOf(k.buf, g.out, Content(f), g.pos + Len(g.out))
  /\ k.op = "read" /\ ~k.over => k.left > 0
  /\ k.op = "read" /\ k.over /\ k.left > 0 => g.in = <<>> /\ g.out = <<>>

FailedRead(g, k, n) == DOMAIN g = RFields /\ g.err # "OK" /\ (k.over \/ k.op = "closed") /\ n = 0

Crashed(g, k, n) == g.how = "crash" /\ k.op = "closed" /\ ~k.over /\ k.buf = <<>> /\ n = 0

LEMMA NoCallOK == RCallOK(NoCall) /\ NoCall.buf = <<>> /\ NoCall.over /\ NoCall.op = "none" /\ NoCall.left = 0
BY EmptySeq DEF RCallOK, CallFields, NoCall

SameCall(k, call) == RCallOK(k) /\ k.op = call.op /\ k.over = call.over /\ k.left = call.left /\ k.buf = call.buf

LEMMA GoesCall ==
  ASSUME NEW call, RCallOK(call), NEW k, NEW odd, Is(k, [call EXCEPT !.odd = odd])
  PROVE  SameCall(k, call)
BY DEF RCallOK, CallFields, SameCall, Is

LEMMA StandsSame ==
  ASSUME NEW g, NEW call, NEW n, NEW f, Stands(g, call, n, f), NEW k, SameCall(k, call)
  PROVE  Stands(g, k, n, f)
BY DEF Stands, SameCall

Reads == Stands(state, rcall, skipping, file) \/ FailedRead(state, rcall, skipping) \/ Crashed(state, rcall, skipping)

(* Goes() *)
LEMMA GoesReads ==
  ASSUME NEW t, NEW call, Goes(t, call), DOMAIN t = RFields,
         t.err = "OK" => Stands(t, call, skipping', file), t.err # "OK" => skipping' = 0
  PROVE  Reads'
<1>1. state' = t /\ file' = file
  BY DEF Goes
<1>2. CASE t.err # "OK"
  <2>1. rcall' = NoCall
    BY <1>2 DEF Goes
  <2>2. FailedRead(t, rcall', skipping')
    BY <1>2, <2>1, NoCallOK DEF FailedRead
  <2> QED BY <1>1, <2>2 DEF Reads
<1>3. CASE t.err = "OK"
  <2>1. rcall' = [call EXCEPT !.odd = ~call.over /\ ~call.odd]
    BY <1>3 DEF Goes
  <2>2. Stands(t, call, skipping', file) /\ RCallOK(call)
    BY <1>3 DEF Stands
  <2>3. PICK k : k = rcall'
    OBVIOUS
  <2>4. PICK odd : odd = (~call.over /\ ~call.odd)
    OBVIOUS
  <2>5. SameCall(k, call)
    <3>1. Is(k, [call EXCEPT !.odd = odd])
      BY <2>1, <2>3, <2>4 DEF Is
    <3> QED BY <2>2, <3>1, GoesCall
  <2>6. PICK n : n = skipping'
    OBVIOUS
  <2>7. Stands(t, k, n, file)
    BY <2>2, <2>5, <2>6, StandsSame
  <2>8. Stands(state', rcall', skipping', file')
    BY <1>1, <2>3, <2>6, <2>7
  <2> QED BY <2>8 DEF Reads
<1> QED BY <1>2, <1>3

(* n bytes leave the output buffer. *)
Takes(t, g, o, x, seek) == t = [g EXCEPT !.out = o, !.pos = x, !.seek = seek]
HasTaken(t, g, o, x, seek) ==
  /\ ReaderOK(t) /\ t.in = g.in /\ t.out = o /\ t.pos = x /\ t.fpos = g.fpos /\ t.eof = g.eof /\ t.raw = g.raw
  /\ t.how = g.how /\ t.seek = seek /\ t.size = g.size

LEMMA TakeReader ==
  ASSUME NEW g, ReaderOK(g), NEW o \in Seq(Int), NEW x \in Int, NEW seek \in Nat, NEW t, Takes(t, g, o, x, seek)
  PROVE  HasTaken(t, g, o, x, seek)
BY DEF ReaderOK, RFields, Takes, HasTaken

(* The output buffer changes, but not where it ends in the file. *)
LEMMA TakesMode ==
  ASSUME NEW g, ReaderOK(g), NEW f, ModeOK(g, f), NEW o \in Seq(Int), NEW x \in Int, NEW seek \in Nat,
         NEW t, Takes(t, g, o, x, seek), Is(x + Len(o), g.pos + Len(g.out))
  PROVE  ReaderOK(t) /\ ModeOK(t, f) /\ Is(t.pos + Len(t.out), g.pos + Len(g.out)) /\ HasTaken(t, g, o, x, seek)
<1>1. HasTaken(t, g, o, x, seek)
  BY TakeReader
<1>2. t.pos + Len(t.out) = g.pos + Len(g.out) /\ t.in = g.in /\ t.fpos = g.fpos /\ t.eof = g.eof /\ t.raw = g.raw
      /\ t.how = g.how /\ ReaderOK(t)
  BY <1>1 DEF HasTaken, Is
<1>3. InMember(g, f, "look") => InMember(t, f, "look")
  BY <1>2 DEF InMember
<1>4. InMember(g, f, "data") => InMember(t, f, "data")
  BY <1>2 DEF InMember
<1>5. InRaw(g, f) => InRaw(t, f)
  BY <1>2 DEF InRaw
<1>6. ModeOK(t, f)
  BY <1>2, <1>3, <1>4, <1>5 DEF ModeOK
<1> QED BY <1>1, <1>2, <1>6 DEF Is

LEMMA TakenOutIs ==
  ASSUME NEW g, ReaderOK(g), NEW n \in Nat, n <= Len(g.out), NEW t, Is(t, TakenOut(g, n))
  PROVE  /\ Drop(g.out, n) \in Seq(Int) /\ g.pos + n \in Int
         /\ Takes(t, g, Drop(g.out, n), g.pos + n, g.seek)
         /\ Is((g.pos + n) + Len(Drop(g.out, n)), g.pos + Len(g.out))
<1>1. g.out \in Seq(Int) /\ g.pos \in Int /\ DOMAIN g = RFields
  BY DEF ReaderOK
<1>2. PICK d \in Seq(Int) : d = Drop(g.out, n)
  BY <1>1, DropAt
<1>3. Len(d) = Len(g.out) - n
  BY <1>1, <1>2, DropAt
<1>4. (g.pos + n) + Len(d) = g.pos + Len(g.out)
  <2>1. PICK L \in Nat : L = Len(g.out)
    BY <1>1
  <2>2. PICK x \in Int : x = g.pos
    BY <1>1
  <2>3. (x + n) + (L - n) = x + L
    OBVIOUS
  <2> QED BY <1>3, <2>1, <2>2, <2>3
<1>5. t = [g EXCEPT !.out = d, !.pos = g.pos + n]
  BY <1>2 DEF TakenOut, Is
<1>6. Takes(t, g, d, g.pos + n, g.seek)
  BY <1>1, <1>5 DEF Takes, RFields
<1> QED BY <1>1, <1>2, <1>4, <1>6 DEF Is

(* Bytes are skipped. *)
LEMMA SkipStands ==
  ASSUME NEW g, NEW k, NEW n, file \in Seq(Unit), Stands(g, k, n, file), ~k.over, n > 0,
         NEW m \in Nat, m <= n, m <= Len(g.out), NEW t, Is(t, TakenOut(g, m))
  PROVE  Stands(t, k, n - m, file) /\ DOMAIN t = RFields /\ t.err = "OK"
<1>1. ReaderOK(g) /\ ModeOK(g, file) /\ RCallOK(k) /\ n \in Nat /\ k.buf = <<>> /\ k.op # "closed"
      /\ SegOf(k.buf, g.out, Content(file), g.pos + Len(g.out)) /\ (k.op = "read" => k.left > 0)
  BY DEF Stands
<1>2. PICK d : d = Drop(g.out, m)
  OBVIOUS
<1>3. PICK x : x = g.pos + m
  OBVIOUS
<1>4. d \in Seq(Int) /\ x \in Int /\ Takes(t, g, d, x, g.seek) /\ Is(x + Len(d), g.pos + Len(g.out)) /\ g.seek \in Nat
  BY <1>1, <1>2, <1>3, TakenOutIs DEF ReaderOK
<1>5. ReaderOK(t) /\ ModeOK(t, file) /\ Is(t.pos + Len(t.out), g.pos + Len(g.out)) /\ HasTaken(t, g, d, x, g.seek)
  BY <1>1, <1>4, TakesMode
<1>6. PICK e \in Nat : e = g.pos + Len(g.out)
  BY <1>1, EndNat
<1>7. Content(file) \in Seq(Unit) /\ g.out \in Seq(Int) /\ k.buf \in Seq(Int)
  BY <1>1, ContentType DEF ReaderOK, RCallOK
<1>8. SegOf(k.buf, g.out, Content(file), e) /\ Is(d, Drop(g.out, m))
  BY <1>1, <1>2, <1>6 DEF Is
<1>9. SegOf(<<>>, d, Content(file), e)
  BY <1>7, <1>8, SegOfSkip
<1>10. SegOf(k.buf, t.out, Content(file), t.pos + Len(t.out))
  BY <1>1, <1>5, <1>6, <1>9 DEF HasTaken, Is
<1>11. n - m \in Nat
  BY <1>1
<1>12. Stands(t, k, n - m, file)
  BY <1>1, <1>5, <1>10, <1>11 DEF Stands
<1>13. DOMAIN t = RFields /\ t.err = "OK"
  BY <1>5 DEF ReaderOK
<1> QED BY <1>12, <1>13

(* The output buffer is filled. *)
LEMMA MadeStands ==
  ASSUME NEW g, NEW k, NEW n, file \in Seq(Unit), Stands(g, k, n, file), k.op # "read" \/ ~k.over, g.out = <<>>, NEW t, Made(t, g)
  PROVE  DOMAIN t = RFields /\ (t.err = "OK" => Stands(t, k, n, file))
<1>1. ReaderOK(g) /\ ModeOK(g, file) /\ RCallOK(k) /\ n \in Nat /\ (n > 0 => k.buf = <<>> /\ ~k.over /\ k.op # "closed")
      /\ SegOf(k.buf, g.out, Content(file), g.pos + Len(g.out)) /\ (k.op = "read" /\ ~k.over => k.left > 0)
  BY DEF Stands
<1>2. ASSUME t.err = "OK" PROVE Stands(t, k, n, file)
  <2>1. ReaderOK(t) /\ ModeOK(t, file) /\ t.pos = g.pos /\ Gives(t.out, Content(file), g.pos)
    BY <1>2 DEF Made
  <2>2. PICK e \in Nat : e = g.pos /\ e = g.pos + Len(g.out)
    <3>1. g.pos + Len(g.out) \in Nat
      BY <1>1, EndNat
    <3>2. g.pos + Len(g.out) = g.pos
      BY <1>1 DEF ReaderOK
    <3> QED BY <3>1, <3>2
  <2>3. PICK b \in Seq(Int) : b = k.buf
    BY <1>1 DEF RCallOK
  <2>4. PICK o \in Seq(Int) : o = t.out
    BY <2>1 DEF ReaderOK
  <2>5. SegOf(b, <<>>, Content(file), e) /\ Gives(o, Content(file), e)
    BY <1>1, <2>1, <2>2, <2>3, <2>4
  <2>6. PICK x : Is(x, e + Len(o))
    BY DEF Is
  <2>7. PICK h : Is(h, b \o o)
    BY DEF Is
  <2>8. SegOf(b, o, Content(file), x)
    BY <2>5, <2>6, <2>7, ContentType, SegOfMore
  <2>9. SegOf(k.buf, t.out, Content(file), t.pos + Len(t.out))
    BY <2>1, <2>2, <2>3, <2>4, <2>6, <2>8 DEF Is
  <2>10. ~(k.op = "read" /\ k.over)
    OBVIOUS
  <2> QED BY <1>1, <2>1, <2>9, <2>10 DEF Stands
<1> QED BY <1>2 DEF Made

(* A turn of gz_skip()'s loop. *)
LEMMA SkipReads ==
  ASSUME Stands(state, rcall, skipping, file), file \in Seq(Unit), Skip
  PROVE  Reads'
<1>1. ReaderOK(state) /\ ModeOK(state, file) /\ skipping \in Nat /\ state.out \in Seq(Int) /\ Len(state.out) \in Nat
      /\ DOMAIN state = RFields /\ state.err = "OK"
  BY DEF Stands, ReaderOK
<1>2. PICK m \in Nat : m = Lesser(skipping, Len(state.out)) /\ m <= skipping /\ m <= Len(state.out) /\ (m = skipping \/ m = Len(state.out))
  <2>1. PICK m \in Nat : m = Lesser(skipping, Len(state.out))
    BY <1>1 DEF Lesser
  <2>2. m <= skipping /\ m <= Len(state.out) /\ (m = skipping \/ m = Len(state.out))
    BY <1>1, <2>1 DEF Lesser
  <2> QED BY <2>1, <2>2
<1>3. ~rcall.over /\ skipping > 0
  BY DEF Skip
<1>4. CASE m > 0
  <2>1. Goes(TakenOut(state, m), rcall) /\ skipping' = skipping - m
    BY <1>2, <1>4 DEF Skip
  <2>2. PICK t : Is(t, TakenOut(state, m))
    BY DEF Is
  <2>3. Stands(t, rcall, skipping - m, file) /\ DOMAIN t = RFields /\ t.err = "OK"
    BY <1>2, <1>3, <2>2, SkipStands
  <2>4. Goes(t, rcall) /\ Stands(t, rcall, skipping', file)
    BY <2>1, <2>2, <2>3 DEF Is
  <2> QED BY <2>3, <2>4, GoesReads
<1>5. CASE m = 0 /\ AtEnd(state)
  <2>1. Goes(state, rcall) /\ skipping' = 0
    BY <1>2, <1>5 DEF Skip
  <2>2. Stands(state, rcall, 0, file)
    BY DEF Stands
  <2> QED BY <1>1, <2>1, <2>2, GoesReads
<1>6. CASE m = 0 /\ ~AtEnd(state)
  <2>1. PICK t : Is(t, gz_make(state))
    BY DEF Is
  <2>2. Goes(t, rcall) /\ skipping' = (IF t.err = "OK" THEN skipping ELSE 0)
    BY <1>2, <1>6, <2>1 DEF Skip, Is
  <2>3. state.out = <<>>
    BY <1>1, <1>2, <1>3, <1>6, EmptySeq
  <2>4. Made(t, state)
    BY <1>1, <2>1, <2>3, MakeMade
  <2>5. DOMAIN t = RFields /\ (t.err = "OK" => Stands(t, rcall, skipping, file))
    BY <1>3, <2>3, <2>4, MadeStands
  <2>6. (t.err = "OK" => Stands(t, rcall, skipping', file)) /\ (t.err # "OK" => skipping' = 0)
    BY <2>2, <2>5
  <2> QED BY <2>2, <2>5, <2>6, GoesReads
<1> QED BY <1>2, <1>4, <1>5, <1>6

(* data is handed to the caller. *)
Handed(m, over, data, h) ==
  RCallOK(m) /\ m.op = rcall.op /\ m.over = over /\ m.left = rcall.left - Len(data) /\ m.buf = h

LEMMA MoreIs ==
  ASSUME RCallOK(rcall), NEW data \in Seq(Int), Len(data) <= rcall.left, NEW h, Is(h, rcall.buf \o data)
  PROVE  Handed(More(data), rcall.over, data, h) /\ Handed(Over(data), TRUE, data, h)
<1>1. DOMAIN rcall = CallFields /\ rcall.over \in BOOLEAN /\ rcall.left \in Nat /\ rcall.buf \in Seq(Int)
  BY DEF RCallOK
<1>2. PICK l \in Nat : l = rcall.left - Len(data)
  <2>1. rcall.left - Len(data) \in Nat
    BY <1>1
  <2> QED BY <2>1
<1>3. h \in Seq(Int)
  BY <1>1, ConcatAt DEF Is
<1>4. More(data) = [rcall EXCEPT !.left = l, !.buf = h]
  BY <1>2 DEF More, Is
<1>5. PICK m : m = More(data)
  OBVIOUS
<1>6. DOMAIN m = CallFields /\ m.over = rcall.over /\ m.left = l /\ m.buf = h /\ m.op = rcall.op
  BY <1>1, <1>4, <1>5 DEF CallFields
<1>7. Handed(m, rcall.over, data, h)
  BY <1>1, <1>2, <1>3, <1>6 DEF Handed, RCallOK
<1>8. PICK v : v = [m EXCEPT !.over = TRUE]
  OBVIOUS
<1>9. DOMAIN v = CallFields /\ v.over = TRUE /\ v.left = l /\ v.buf = h /\ v.op = rcall.op
  BY <1>6, <1>8 DEF CallFields
<1>10. Handed(v, TRUE, data, h)
  BY <1>2, <1>3, <1>9 DEF Handed, RCallOK
<1> QED BY <1>5, <1>7, <1>8, <1>10 DEF Over

(* The reader stands with what has been handed over. *)
Fits(t, h) == ReaderOK(t) /\ ModeOK(t, file) /\ SegOf(h, t.out, Content(file), t.pos + Len(t.out))

LEMMA OverReads ==
  ASSUME RCallOK(rcall), skipping' = 0, NEW data \in Seq(Int), Len(data) <= rcall.left, NEW h, Is(h, rcall.buf \o data),
         NEW t, Fits(t, h), Goes(t, Over(data)),
         rcall.op = "read" /\ rcall.left - Len(data) > 0 => t.in = <<>> /\ t.out = <<>>
  PROVE  Reads'
<1>1. PICK m : m = Over(data)
  OBVIOUS
<1>2. Handed(m, TRUE, data, h)
  BY <1>1, MoreIs
<1>3. Stands(t, m, 0, file)
  BY <1>2 DEF Stands, Fits, Handed
<1>4. Goes(t, m) /\ DOMAIN t = RFields /\ t.err = "OK" /\ Stands(t, m, skipping', file)
  BY <1>1, <1>3 DEF Fits, ReaderOK
<1> QED BY <1>4, GoesReads

LEMMA CopiedReads ==
  ASSUME RCallOK(rcall), ~rcall.over, skipping' = 0, NEW data \in Seq(Int), Len(data) <= rcall.left,
         NEW h, Is(h, rcall.buf \o data), NEW t, Fits(t, h), Copied(t, data)
  PROVE  Reads'
<1>1. CASE rcall.left = Len(data)
  <2>1. Goes(t, Over(data))
    BY <1>1 DEF Copied
  <2>2. ~(rcall.left - Len(data) > 0)
    BY <1>1 DEF RCallOK
  <2> QED BY <2>1, <2>2, OverReads
<1>2. CASE rcall.left # Len(data)
  <2>1. Goes(t, More(data))
    BY <1>2 DEF Copied
  <2>2. PICK m : m = More(data)
    OBVIOUS
  <2>3. Handed(m, FALSE, data, h)
    <3>1. rcall.over = FALSE
      BY DEF RCallOK
    <3> QED BY <2>2, <3>1, MoreIs
  <2>4. rcall.left - Len(data) > 0
    BY <1>2 DEF RCallOK
  <2>5. Stands(t, m, 0, file)
    BY <2>3, <2>4 DEF Stands, Fits, Handed
  <2>6. Goes(t, m) /\ DOMAIN t = RFields /\ t.err = "OK" /\ Stands(t, m, skipping', file)
    BY <2>1, <2>2, <2>5 DEF Fits, ReaderOK
  <2> QED BY <2>6, GoesReads
<1> QED BY <1>1, <1>2

(* The first bytes of the output buffer are handed over. *)
LEMMA TakenFits ==
  ASSUME NEW g, NEW k, NEW s, file \in Seq(Unit), Stands(g, k, s, file), NEW n \in Nat, n <= Len(g.out),
         NEW t, Is(t, TakenOut(g, n)), NEW h, Is(h, k.buf \o Take(g.out, n))
  PROVE  Fits(t, h)
<1>1. ReaderOK(g) /\ ModeOK(g, file) /\ RCallOK(k)
      /\ SegOf(k.buf, g.out, Content(file), g.pos + Len(g.out))
  BY DEF Stands
<1>2. PICK d : d = Drop(g.out, n)
  OBVIOUS
<1>3. PICK x : x = g.pos + n
  OBVIOUS
<1>4. d \in Seq(Int) /\ x \in Int /\ Takes(t, g, d, x, g.seek) /\ Is(x + Len(d), g.pos + Len(g.out)) /\ g.seek \in Nat
  BY <1>1, <1>2, <1>3, TakenOutIs DEF ReaderOK
<1>5. ReaderOK(t) /\ ModeOK(t, file) /\ Is(t.pos + Len(t.out), g.pos + Len(g.out)) /\ HasTaken(t, g, d, x, g.seek)
  BY <1>1, <1>4, TakesMode
<1>6. PICK e \in Nat : e = g.pos + Len(g.out)
  BY <1>1, EndNat
<1>7. Content(file) \in Seq(Unit) /\ g.out \in Seq(Int) /\ k.buf \in Seq(Int)
  BY <1>1, ContentType DEF ReaderOK, RCallOK
<1>8. SegOf(k.buf, g.out, Content(file), e) /\ Is(d, Drop(g.out, n))
  BY <1>1, <1>2, <1>6 DEF Is
<1>9. SegOf(h, d, Content(file), e)
  BY <1>7, <1>8, SegOfTake
<1> QED BY <1>5, <1>6, <1>9 DEF Fits, HasTaken, Is

(* What gzread() copies to the caller directly: l, of which the reader keeps nothing. *)
LEMMA DirectFits ==
  ASSUME NEW g, NEW k, NEW s, file \in Seq(Unit), Stands(g, k, s, file), g.out = <<>>, NEW l \in Seq(Int),
         Gives(l, Content(file), g.pos), NEW h, Is(h, k.buf \o l), NEW t, ReaderOK(t), ModeOK(t, file),
         t.out = <<>>, Is(t.pos, g.pos + Len(l))
  PROVE  Fits(t, h)
<1>1. ReaderOK(g) /\ ModeOK(g, file) /\ RCallOK(k)
      /\ SegOf(k.buf, g.out, Content(file), g.pos + Len(g.out))
  BY DEF Stands
<1>2. PICK e \in Nat : e = g.pos /\ e = g.pos + Len(g.out)
  <2>1. g.pos + Len(g.out) \in Nat
    BY <1>1, EndNat
  <2>2. g.pos + Len(g.out) = g.pos
    BY <1>1 DEF ReaderOK
  <2> QED BY <2>1, <2>2
<1>3. PICK b \in Seq(Int) : b = k.buf
  BY <1>1 DEF RCallOK
<1>4. SegOf(b, <<>>, Content(file), e) /\ Gives(l, Content(file), e) /\ Is(h, b \o l)
  BY <1>1, <1>2, <1>3
<1>5. PICK x : Is(x, e + Len(l))
  BY DEF Is
<1>6. SegOf(h, <<>>, Content(file), x)
  BY <1>4, <1>5, ContentType, SegOfMore
<1>7. t.pos + Len(t.out) = x
  <2>1. t.pos = x
    BY <1>2, <1>5 DEF Is
  <2>2. t.pos + Len(t.out) = t.pos
    BY DEF ReaderOK
  <2> QED BY <2>1, <2>2
<1> QED BY <1>6, <1>7 DEF Fits

(* gzread() of a file that is copied, directly. *)
LEMMA CopyDirect ==
  ASSUME Stands(state, rcall, skipping, file), file \in Seq(Unit), state.out = <<>>, state.how = "COPY",
         NEW data, Is(data, gz_load(state, rcall.left)), NEW t,
         Is(t, [Loaded(state, rcall.left) EXCEPT !.pos = @ + Len(data)]), NEW h, Is(h, rcall.buf \o data)
  PROVE  Fits(t, h) /\ data \in Seq(Int) /\ Len(data) <= rcall.left
<1>1. ReaderOK(state) /\ ModeOK(state, file) /\ RCallOK(rcall) /\ rcall.left \in Nat
  BY DEF Stands, RCallOK
<1>2. CopiesOn(data, state) /\ Len(data) <= rcall.left
  BY <1>1, LoadCopies
<1>3. data \in Seq(Unit) /\ Len(data) \in Nat /\ state.fpos \in Nat /\ state.eof \in BOOLEAN /\ state.pos \in Int /\ DOMAIN state = RFields
  BY <1>1, <1>2 DEF CopiesOn, ReaderOK
<1>4. PICK p \in Nat : p = state.fpos + Len(data)
  BY <1>3
<1>5. PICK eof \in BOOLEAN : eof = (state.eof \/ Len(data) < rcall.left)
  OBVIOUS
<1>6. PICK x \in Int : x = state.pos + Len(data)
  BY <1>3
<1>7. Loads(t, state, p, eof, <<>>, x)
  <2>1. Loaded(state, rcall.left) = [state EXCEPT !.fpos = state.fpos + Len(data), !.eof = state.eof \/ Len(data) < rcall.left]
    BY Zenon DEF Is, Loaded
  <2>2. Loaded(state, rcall.left) = [state EXCEPT !.fpos = p, !.eof = eof]
    BY <1>4, <1>5, <2>1
  <2>3. t = [[state EXCEPT !.fpos = p, !.eof = eof] EXCEPT !.pos = x]
    BY <1>3, <1>6, <2>2 DEF Is, RFields
  <2> QED BY <1>3, <2>3 DEF Loads, RFields
<1>8. HasLoaded(t, state, p, eof, <<>>, x)
  <2>1. <<>> \in Seq(Int)
    OBVIOUS
  <2> QED BY <1>1, <1>7, <2>1, LoadReader
<1>9. t.in = <<>> /\ t.how = "COPY" /\ t.out = <<>> /\ t.pos = x /\ t.raw = state.raw /\ t.fpos = p /\ ReaderOK(t)
  BY <1>1, <1>8 DEF HasLoaded, ModeOK, InRaw
<1>10. t.pos + Len(t.out) = x
  BY <1>9
<1>11. InRaw(t, file)
  BY <1>2, <1>4, <1>6, <1>9, <1>10 DEF InRaw, CopiesOn
<1>12. ModeOK(t, file)
  BY <1>9, <1>11 DEF ModeOK
<1>13. data \in Seq(Int)
  BY <1>3, UnitsInts
<1>14. Gives(data, Content(file), state.pos) /\ Is(t.pos, state.pos + Len(data)) /\ t.out = <<>> /\ ReaderOK(t)
  BY <1>2, <1>6, <1>9 DEF CopiesOn, Is
<1>15. Fits(t, h)
  BY <1>12, <1>13, <1>14, DirectFits
<1> QED BY <1>2, <1>13, <1>15

(* gzread() of a member, directly. *)
LEMMA DecompDirect ==
  ASSUME Stands(state, rcall, skipping, file), file \in Seq(Unit), state.out = <<>>, state.how = "GZIP",
         NEW g, Is(g, gz_decomp(state, rcall.left)), g.err = "OK", NEW t,
         Is(t, [[g EXCEPT !.pos = @ + Len(g.out)] EXCEPT !.out = <<>>]), NEW h, Is(h, rcall.buf \o g.out)
  PROVE  Fits(t, h) /\ g.out \in Seq(Int) /\ Len(g.out) <= rcall.left
<1>1. ReaderOK(state) /\ ModeOK(state, file) /\ RCallOK(rcall) /\ rcall.left \in Nat
  BY DEF Stands, RCallOK
<1>2. Made(g, state) /\ Len(g.out) <= rcall.left
  BY <1>1, DecompMade
<1>3. ReaderOK(g) /\ ModeOK(g, file) /\ g.pos = state.pos /\ Gives(g.out, Content(file), state.pos)
  BY <1>2 DEF Made
<1>4. PICK o \in Seq(Int) : o = g.out
  BY <1>3 DEF ReaderOK
<1>5. PICK x \in Int : x = g.pos + Len(o)
  <2>1. g.pos + Len(o) \in Int
    BY <1>3 DEF ReaderOK
  <2> QED BY <2>1
<1>6. PICK z \in Seq(Int) : z = <<>>
  BY EmptySeq
<1>7. PICK seek \in Nat : seek = g.seek
  BY <1>3 DEF ReaderOK
<1>8. Takes(t, g, z, x, seek)
  <2>1. DOMAIN g = RFields
    BY <1>3 DEF ReaderOK
  <2> QED BY <1>4, <1>5, <1>6, <1>7, <2>1 DEF Takes, Is, RFields
<1>9. Is(x + Len(z), g.pos + Len(g.out))
  BY <1>4, <1>5, <1>6 DEF Is
<1>10. ReaderOK(g) /\ ModeOK(g, file)
  BY <1>3
<1>11. ReaderOK(t) /\ ModeOK(t, file) /\ HasTaken(t, g, z, x, seek)
  BY <1>8, <1>9, <1>10, TakesMode
<1>12. t.out = <<>> /\ Is(t.pos, state.pos + Len(o)) /\ Gives(o, Content(file), state.pos) /\ Is(h, rcall.buf \o o)
  BY <1>3, <1>4, <1>5, <1>6, <1>11 DEF HasTaken, Is
<1>13. Fits(t, h)
  BY <1>11, <1>12, DirectFits
<1> QED BY <1>2, <1>4, <1>13

(* A turn of gzread()'s loop. *)
LEMMA ReadReads ==
  ASSUME Stands(state, rcall, skipping, file), file \in Seq(Unit), Read
  PROVE  Reads'
<1>1. /\ ReaderOK(state) /\ ModeOK(state, file) /\ RCallOK(rcall) /\ rcall.left \in Nat /\ rcall.left > 0
      /\ rcall.buf \in Seq(Int) /\ state.out \in Seq(Int) /\ Len(state.out) \in Nat
      /\ state.size \in Nat /\ DOMAIN state = RFields /\ state.err = "OK"
  BY DEF Stands, ReaderOK, RCallOK, Read
<1>2. rcall.op = "read" /\ ~rcall.over /\ skipping = 0 /\ skipping' = 0
  BY DEF Read
<1>3. PICK n \in Nat : n = Lesser(rcall.left, Len(state.out)) /\ n <= rcall.left /\ n <= Len(state.out) /\ (n = 0 => Len(state.out) = 0)
  <2>1. PICK m \in Nat : m = Lesser(rcall.left, Len(state.out))
    BY <1>1 DEF Lesser
  <2>2. m <= rcall.left /\ m <= Len(state.out) /\ (m = 0 => Len(state.out) = 0)
    BY <1>1, <2>1 DEF Lesser
  <2> QED BY <2>1, <2>2
<1>4. n = 0 => state.out = <<>>
  BY <1>1, <1>3, EmptySeq
<1>5. PICK g : Is(g, gz_decomp(state, rcall.left))
  BY DEF Is
<1> DEFINE direct == [g EXCEPT !.pos = @ + Len(g.out)]
           FromBuffer == n > 0 /\ Copied(TakenOut(state, n), Take(state.out, n))
           AtItsEnd == n = 0 /\ AtEnd(state) /\ Goes(state, Over(<<>>))
           Refills == n = 0 /\ Goes(gz_make(state), rcall)
           Copying == /\ n = 0 /\ state.how = "COPY"
                      /\ IF failing THEN Goes([state EXCEPT !.err = "ERRNO"], rcall)
                         ELSE LET data == gz_load(state, rcall.left)
                              IN Copied([Loaded(state, rcall.left) EXCEPT !.pos = @ + Len(data)], data)
           Unzips == /\ n = 0 /\ state.how = "GZIP"
                     /\ IF direct.err # "OK" THEN Goes(g, rcall)
                        ELSE Copied([direct EXCEPT !.out = <<>>], direct.out)
<1>7. FromBuffer \/ AtItsEnd \/ Refills \/ Copying \/ Unzips
  BY <1>3, <1>5, Zenon DEF Read, Is
<1> HIDE DEF direct
<1>8. CASE FromBuffer
  <2>1. Copied(TakenOut(state, n), Take(state.out, n))
    BY <1>8
  <2>2. PICK t : Is(t, TakenOut(state, n))
    BY DEF Is
  <2>3. PICK data \in Seq(Int) : data = Take(state.out, n) /\ Len(data) = n
    BY <1>1, <1>3, TakeAt
  <2>4. PICK h : Is(h, rcall.buf \o data)
    BY DEF Is
  <2>5. Fits(t, h)
    <3>1. Is(h, rcall.buf \o Take(state.out, n))
      BY <2>3, <2>4
    <3> QED BY <1>3, <2>2, <3>1, TakenFits
  <2>6. Copied(t, data) /\ Len(data) <= rcall.left
    BY <1>3, <2>1, <2>2, <2>3 DEF Is
  <2> QED BY <1>1, <1>2, <2>4, <2>5, <2>6, CopiedReads
<1>9. CASE AtItsEnd
  <2>1. Goes(state, Over(<<>>))
    BY <1>9
  <2>2. PICK data \in Seq(Int) : data = <<>> /\ Len(data) = 0
    <3>1. <<>> \in Seq(Int) /\ Len(<<>>) = 0
      OBVIOUS
    <3> QED BY <3>1
  <2>3. PICK h : Is(h, rcall.buf \o data)
    BY DEF Is
  <2>4. h = rcall.buf
    BY <1>1, <2>2, <2>3, EmptyConcat DEF Is
  <2>5. Fits(state, h)
    BY <1>1, <2>4 DEF Fits, Stands
  <2>6. Goes(state, Over(data)) /\ Len(data) <= rcall.left /\ state.in = <<>> /\ state.out = <<>>
    BY <1>1, <1>4, <1>9, <2>1, <2>2 DEF AtEnd
  <2> QED BY <1>1, <1>2, <2>3, <2>5, <2>6, OverReads
<1>10. CASE Refills
  <2>1. Goes(gz_make(state), rcall)
    BY <1>10
  <2>2. PICK t : Is(t, gz_make(state))
    BY DEF Is
  <2>3. Made(t, state)
    BY <1>1, <1>4, <1>10, <2>2, MakeMade
  <2>4. DOMAIN t = RFields /\ (t.err = "OK" => Stands(t, rcall, skipping, file))
    BY <1>2, <1>4, <1>10, <2>3, MadeStands
  <2>5. Goes(t, rcall) /\ DOMAIN t = RFields /\ (t.err = "OK" => Stands(t, rcall, skipping', file))
    BY <1>2, <2>1, <2>2, <2>4 DEF Is
  <2> QED BY <1>2, <2>5, GoesReads
<1>11. CASE Copying
  <2>1. IF failing THEN Goes([state EXCEPT !.err = "ERRNO"], rcall)
        ELSE LET data == gz_load(state, rcall.left)
             IN Copied([Loaded(state, rcall.left) EXCEPT !.pos = @ + Len(data)], data)
    BY <1>11
  <2>2. CASE failing
    <3>1. PICK t : t = [state EXCEPT !.err = "ERRNO"]
      OBVIOUS
    <3>2. Goes(t, rcall) /\ DOMAIN t = RFields /\ t.err # "OK"
      BY <1>1, <2>1, <2>2, <3>1 DEF RFields
    <3> QED BY <1>2, <3>2, GoesReads
  <2>3. CASE ~failing
    <3>1. PICK data : Is(data, gz_load(state, rcall.left))
      BY DEF Is
    <3>2. PICK t : Is(t, [Loaded(state, rcall.left) EXCEPT !.pos = @ + Len(data)])
      BY DEF Is
    <3>3. PICK h : Is(h, rcall.buf \o data)
      BY DEF Is
    <3>4. Fits(t, h) /\ data \in Seq(Int) /\ Len(data) <= rcall.left
      BY <1>4, <1>11, <3>1, <3>2, <3>3, CopyDirect
    <3>5. Copied(t, data)
      BY <2>1, <2>3, <3>1, <3>2 DEF Is
    <3> QED BY <1>1, <1>2, <3>3, <3>4, <3>5, CopiedReads
  <2> QED BY <2>2, <2>3
<1>12. CASE Unzips
  <2>1. IF direct.err # "OK" THEN Goes(g, rcall) ELSE Copied([direct EXCEPT !.out = <<>>], direct.out)
    BY <1>12
  <2>2. Made(g, state)
    BY <1>1, <1>4, <1>5, <1>12, DecompMade
  <2>3. DOMAIN g = RFields
    BY <2>2 DEF Made
  <2>4. direct.err = g.err /\ direct.out = g.out
    BY <2>3 DEF direct, RFields
  <2>5. CASE g.err # "OK"
    <3>1. Goes(g, rcall)
      BY <2>1, <2>4, <2>5
    <3> QED BY <1>2, <2>3, <2>5, <3>1, GoesReads
  <2>6. CASE g.err = "OK"
    <3>1. PICK t : Is(t, [[g EXCEPT !.pos = @ + Len(g.out)] EXCEPT !.out = <<>>])
      BY DEF Is
    <3>2. PICK data : data = g.out
      OBVIOUS
    <3>3. PICK h : Is(h, rcall.buf \o g.out)
      BY DEF Is
    <3>4. Fits(t, h) /\ g.out \in Seq(Int) /\ Len(g.out) <= rcall.left
      BY <1>4, <1>5, <1>12, <2>6, <3>1, <3>3, DecompDirect
    <3>5. t = [direct EXCEPT !.out = <<>>]
      BY <3>1 DEF direct, Is
    <3>6. Copied(t, data) /\ Is(h, rcall.buf \o data) /\ data \in Seq(Int) /\ Len(data) <= rcall.left /\ Fits(t, h)
      BY <2>1, <2>4, <2>6, <3>2, <3>3, <3>4, <3>5
    <3> QED BY <1>1, <1>2, <3>6, CopiedReads
  <2> QED BY <2>5, <2>6
<1> QED BY <1>7, <1>8, <1>9, <1>10, <1>11, <1>12

(* The first bytes of the first bytes. *)
LEMMA TakeTake ==
  ASSUME NEW s \in Seq(Int), NEW m \in Nat, NEW h, Is(h, Take(s, m)), NEW n \in Nat, n <= Len(h)
  PROVE  Take(h, n) = Take(s, n) /\ n <= Len(s) /\ n <= m
<1>1. Len(s) \in Nat
  OBVIOUS
<1>2. CASE m <= Len(s)
  <2>1. h \in Seq(Int) /\ Len(h) = m /\ \A i \in 1 .. m : h[i] = s[i]
    BY <1>2, TakeAt DEF Is
  <2>2. n <= Len(s) /\ n <= m
    BY <1>1, <1>2, <2>1
  <2>3. PICK x \in Seq(Int) : x = Take(h, n) /\ Len(x) = n /\ \A i \in 1 .. n : x[i] = h[i]
    BY <2>1, TakeAt
  <2>7. n <= Len(s)
    BY <2>2
  <2>8. Take(s, n) \in Seq(Int) /\ Len(Take(s, n)) = n /\ \A i \in 1 .. n : Take(s, n)[i] = s[i]
    BY <2>7, TakeAt
  <2>4. PICK y \in Seq(Int) : y = Take(s, n) /\ Len(y) = n /\ \A i \in 1 .. n : y[i] = s[i]
    BY <2>8
  <2>5. ASSUME NEW i \in 1 .. n PROVE x[i] = y[i]
    <3>1. i \in 1 .. m
      BY <2>2
    <3> QED BY <2>1, <2>3, <2>4, <3>1
  <2>6. x = y
    BY <2>3, <2>4, <2>5, SameSeq
  <2> QED BY <2>2, <2>3, <2>4, <2>6
<1>3. CASE m > Len(s)
  <2>1. h = s
    BY <1>1, <1>3, TakeAll DEF Is
  <2> QED BY <1>1, <1>3, <2>1
<1> QED BY <1>1, <1>2, <1>3

(* A turn of gzgets()'s loop. *)
LEMMA GetsReads ==
  ASSUME Stands(state, rcall, skipping, file), file \in Seq(Unit), Gets
  PROVE  Reads'
<1>1. /\ ReaderOK(state) /\ ModeOK(state, file) /\ RCallOK(rcall) /\ rcall.left \in Nat
      /\ rcall.buf \in Seq(Int) /\ state.out \in Seq(Int) /\ Len(state.out) \in Nat
      /\ DOMAIN state = RFields /\ state.err = "OK"
  BY DEF Stands, ReaderOK, RCallOK
<1>2. rcall.op = "gets" /\ ~rcall.over /\ skipping = 0 /\ skipping' = 0
  BY DEF Gets
<1>3. PICK none \in Seq(Int) : none = <<>> /\ Len(none) = 0
  <2>1. <<>> \in Seq(Int) /\ Len(<<>>) = 0
    OBVIOUS
  <2> QED BY <2>1
<1>4. PICK b : Is(b, rcall.buf \o none)
  BY DEF Is
<1>5. b = rcall.buf
  BY <1>1, <1>3, <1>4, EmptyConcat DEF Is
<1>6. CASE rcall.left = 0
  <2>1. Goes(state, Over(none))
    BY <1>3, <1>6 DEF Gets
  <2>2. Fits(state, b)
    BY <1>1, <1>5 DEF Fits, Stands
  <2>3. Len(none) <= rcall.left /\ rcall.op # "read"
    BY <1>1, <1>2, <1>3
  <2> QED BY <1>1, <1>2, <1>4, <2>1, <2>2, <2>3, OverReads
<1>7. CASE rcall.left # 0 /\ state.out = <<>>
  <2>1. PICK t : Is(t, gz_make(state))
    BY DEF Is
  <2>2. Goes(t, IF t.out = <<>> THEN Over(<<>>) ELSE rcall)
    BY <1>7, <2>1 DEF Gets, Is
  <2>3. Made(t, state)
    BY <1>1, <1>7, <2>1, MakeMade
  <2>4. DOMAIN t = RFields /\ (t.err = "OK" => Stands(t, rcall, skipping, file))
    BY <1>2, <1>7, <2>3, MadeStands
  <2>5. CASE t.err # "OK"
    <3>1. PICK call : call = (IF t.out = <<>> THEN Over(<<>>) ELSE rcall)
      OBVIOUS
    <3>2. Goes(t, call)
      BY <2>2, <3>1
    <3> QED BY <1>2, <2>4, <2>5, <3>2, GoesReads
  <2>6. CASE t.err = "OK" /\ t.out # <<>>
    <3>1. Goes(t, rcall) /\ Stands(t, rcall, skipping', file)
      BY <1>2, <2>2, <2>4, <2>6
    <3> QED BY <2>4, <2>6, <3>1, GoesReads
  <2>7. CASE t.err = "OK" /\ t.out = <<>>
    <3>1. Goes(t, Over(none))
      BY <1>3, <2>2, <2>7
    <3>2. Fits(t, b)
      BY <1>5, <2>4, <2>7 DEF Fits, Stands
    <3>3. Len(none) <= rcall.left /\ rcall.op # "read"
      BY <1>1, <1>2, <1>3
    <3> QED BY <1>1, <1>2, <1>4, <3>1, <3>2, <3>3, OverReads
  <2> QED BY <2>5, <2>6, <2>7
<1>8. CASE rcall.left # 0 /\ state.out # <<>>
  <2>1. PICK here : Is(here, Take(state.out, rcall.left))
    BY DEF Is
  <2> DEFINE eol == {i \in DOMAIN here : here[i] = EOL}
  <2> DEFINE first == IF eol = {} THEN Len(here) ELSE CHOOSE i \in eol : \A j \in eol : i <= j
  <2> HIDE DEF first
  <2>2. PICK n : Is(n, first)
    BY DEF Is
  <2>3. IF eol = {} THEN Copied(TakenOut(state, n), Take(here, n)) ELSE Goes(TakenOut(state, n), Over(Take(here, n)))
    BY <1>8, <2>1, <2>2 DEF Gets, Is, first
  <2>4. here \in Seq(Int) /\ Len(here) \in Nat /\ DOMAIN here = 1 .. Len(here)
    <3>1. here \in Seq(Int)
      <4>1. CASE rcall.left <= Len(state.out)
        BY <1>1, <2>1, <4>1, TakeAt DEF Is
      <4>2. CASE rcall.left > Len(state.out)
        <5>1. here = state.out
          BY <1>1, <2>1, <4>2, TakeAll DEF Is
        <5> QED BY <1>1, <5>1
      <4> QED BY <1>1, <4>1, <4>2
    <3> QED BY <3>1
  <2>5. n \in Nat /\ n <= Len(here)
    <3>1. CASE eol = {}
      BY <2>2, <2>4, <3>1 DEF Is, first
    <3>2. CASE eol # {}
      <4>1. eol \subseteq Nat
        BY <2>4
      <4>2. \E i \in eol : \A j \in eol : i <= j
        BY <3>2, <4>1, SmallestIn
      <4>3. n = CHOOSE i \in eol : \A j \in eol : i <= j
        BY <2>2, <3>2 DEF Is, first
      <4>4. n \in eol
        BY <4>2, <4>3
      <4> QED BY <2>4, <4>4
    <3> QED BY <3>1, <3>2
  <2> HIDE DEF eol
  <2>6. Take(here, n) = Take(state.out, n) /\ n <= Len(state.out) /\ n <= rcall.left
    BY <1>1, <2>1, <2>5, TakeTake
  <2>7. PICK t : Is(t, TakenOut(state, n))
    BY DEF Is
  <2>8. PICK data \in Seq(Int) : data = Take(state.out, n) /\ Len(data) = n
    BY <1>1, <2>5, <2>6, TakeAt
  <2>9. PICK h : Is(h, rcall.buf \o data)
    BY DEF Is
  <2>10. Fits(t, h)
    <3>1. Is(h, rcall.buf \o Take(state.out, n))
      BY <2>8, <2>9
    <3> QED BY <2>5, <2>6, <2>7, <3>1, TakenFits
  <2>11. Copied(t, data) \/ Goes(t, Over(data))
    BY <2>3, <2>6, <2>7, <2>8 DEF Is
  <2>12. Len(data) <= rcall.left /\ rcall.op # "read"
    BY <1>2, <2>6, <2>8
  <2>13. CASE Copied(t, data)
    BY <1>1, <1>2, <2>9, <2>10, <2>12, <2>13, CopiedReads
  <2>14. CASE Goes(t, Over(data))
    BY <1>1, <1>2, <2>9, <2>10, <2>12, <2>14, OverReads
  <2> QED BY <2>11, <2>13, <2>14
<1> QED BY <1>6, <1>7, <1>8

(* No call is in progress and the caller has been given nothing that is still to be compared. *)
LEMMA NoneStands ==
  ASSUME NEW t, ReaderOK(t), NEW f, ModeOK(t, f), SegOf(<<>>, t.out, Content(f), t.pos + Len(t.out))
  PROVE  Stands(t, NoCall, 0, f)
BY NoCallOK DEF Stands

(* gzungetc() after the skip. *)
LEMMA UngetReads ==
  ASSUME Stands(state, rcall, skipping, file), file \in Seq(Unit), Unget
  PROVE  Reads'
<1>1. /\ ReaderOK(state) /\ ModeOK(state, file) /\ RCallOK(rcall)
      /\ rcall.buf \in Seq(Int) /\ state.out \in Seq(Int) /\ Len(state.out) \in Nat /\ state.pos \in Int
      /\ DOMAIN state = RFields /\ state.err = "OK" /\ state.seek \in Nat
  BY DEF Stands, ReaderOK, RCallOK
<1>2. skipping' = 0
  BY DEF Unget
<1>3. CASE state.size = 0
  <2>1. PICK t : t = [state EXCEPT !.how = "crash"]
    OBVIOUS
  <2>2. PICK call : call = [NoCall EXCEPT !.op = "closed", !.over = FALSE]
    OBVIOUS
  <2>3. Goes(t, call)
    BY <1>3, <2>1, <2>2 DEF Unget
  <2>4. t.how = "crash" /\ t.err = "OK"
    BY <1>1, <2>1 DEF RFields
  <2>5. DOMAIN call = CallFields /\ call.op = "closed" /\ ~call.over /\ call.buf = <<>>
    BY <2>2 DEF NoCall, CallFields
  <2>6. state' = t /\ rcall' = [call EXCEPT !.odd = ~call.over /\ ~call.odd]
    BY <2>3, <2>4 DEF Goes
  <2>7. rcall'.op = "closed" /\ ~rcall'.over /\ rcall'.buf = <<>>
    BY <2>5, <2>6 DEF CallFields
  <2>8. Crashed(state', rcall', skipping')
    BY <1>2, <2>4, <2>6, <2>7 DEF Crashed
  <2> QED BY <2>8 DEF Reads
<1>4. CASE state.size # 0 /\ Len(state.out) = 2 * state.size
  <2>1. PICK t : t = [state EXCEPT !.err = "BUF"]
    OBVIOUS
  <2>2. Goes(t, NoCall) /\ DOMAIN t = RFields /\ t.err # "OK"
    BY <1>1, <1>4, <2>1 DEF Unget, RFields
  <2> QED BY <1>2, <2>2, GoesReads
<1>5. CASE state.size # 0 /\ Len(state.out) # 2 * state.size
  <2>1. PICK t : Is(t, [state EXCEPT !.out = <<PUSHED>> \o @, !.pos = @ - 1])
    BY DEF Is
  <2>2. Goes(t, NoCall)
    BY <1>5, <2>1 DEF Unget, Is
  <2>3. PICK e \in Nat : e = state.pos + Len(state.out)
    BY <1>1, EndNat
  <2>4. SegOf(<<>>, state.out, Content(file), e)
    <3>1. SegOf(rcall.buf, state.out, Content(file), e)
      BY <2>3 DEF Stands
    <3> QED BY <1>1, <3>1, ContentType, SegOfNone
  <2>5. PICK p : Is(p, <<PUSHED>> \o state.out)
    BY DEF Is
  <2>6. SegOf(<<>>, p, Content(file), e) /\ p \in Seq(Int) /\ Len(p) = Len(state.out) + 1
    BY <1>1, <2>4, <2>5, ContentType, SegOfPush, SMTT(60)
  <2>7. PICK x \in Int : x = state.pos - 1
    BY <1>1
  <2>8. Takes(t, state, p, x, state.seek)
    BY <1>1, <2>1, <2>5, <2>7 DEF Takes, Is, RFields
  <2>9. Is(x + Len(p), state.pos + Len(state.out))
    <3>1. PICK L \in Nat : L = Len(state.out)
      BY <1>1
    <3>2. PICK y \in Int : y = state.pos
      BY <1>1
    <3>3. (y - 1) + (L + 1) = y + L
      OBVIOUS
    <3> QED BY <2>6, <2>7, <3>1, <3>2, <3>3 DEF Is
  <2>10. p \in Seq(Int) /\ ReaderOK(state) /\ ModeOK(state, file) /\ state.seek \in Nat
    BY <1>1, <2>6
  <2>11. ReaderOK(t) /\ ModeOK(t, file) /\ Is(t.pos + Len(t.out), state.pos + Len(state.out)) /\ HasTaken(t, state, p, x, state.seek)
    BY <2>8, <2>9, <2>10, TakesMode
  <2>12. ReaderOK(t) /\ ModeOK(t, file) /\ SegOf(<<>>, t.out, Content(file), t.pos + Len(t.out))
    BY <2>3, <2>6, <2>11 DEF Is, HasTaken
  <2>13. Stands(t, NoCall, 0, file)
    BY <2>12, NoneStands
  <2>14. DOMAIN t = RFields /\ t.err = "OK" /\ Stands(t, NoCall, skipping', file)
    BY <1>2, <2>12, <2>13 DEF ReaderOK
  <2> QED BY <2>2, <2>14, GoesReads
<1> QED BY <1>3, <1>4, <1>5

(* Calls that are made at once. *)
LEMMA QuickReads ==
  ASSUME NEW t, Quick(t), skipping = 0, DOMAIN t = RFields, t.err = "OK" => Stands(t, NoCall, 0, file)
  PROVE  Reads'
<1>1. state' = t /\ rcall' = NoCall /\ skipping' = 0 /\ file' = file
  BY DEF Quick
<1>2. CASE t.err = "OK"
  BY <1>1, <1>2 DEF Reads
<1>3. CASE t.err # "OK"
  <2>1. FailedRead(t, NoCall, 0)
    BY <1>3, NoCallOK DEF FailedRead
  <2> QED BY <1>1, <2>1 DEF Reads
<1> QED BY <1>2, <1>3

(* What stands does so when the caller forgets what it has been given. *)
LEMMA SegNow ==
  ASSUME NEW g, NEW k, NEW n, NEW f \in Seq(Unit), Stands(g, k, n, f), NEW e, Is(e, g.pos + Len(g.out))
  PROVE  e \in Nat /\ SegOf(<<>>, g.out, Content(f), e)
<1>1. /\ ReaderOK(g) /\ ModeOK(g, f) /\ k.buf \in Seq(Int) /\ g.out \in Seq(Int)
  BY DEF Stands, ReaderOK, RCallOK
<1>2. e \in Nat
  BY <1>1, EndNat DEF Is
<1>3. SegOf(k.buf, g.out, Content(f), e)
  BY DEF Stands, Is
<1> QED BY <1>1, <1>2, <1>3, ContentType, SegOfNone

(* The output buffer changes, but not where it ends in the file: a call that has been made. *)
LEMMA TakesStands ==
  ASSUME NEW g, NEW k, NEW n, file \in Seq(Unit), Stands(g, k, n, file), NEW m \in Nat, m <= Len(g.out), NEW seek \in Nat,
         NEW t, Takes(t, g, Drop(g.out, m), g.pos + m, seek)
  PROVE  Stands(t, NoCall, 0, file) /\ DOMAIN t = RFields
<1>1. ReaderOK(g) /\ ModeOK(g, file) /\ g.out \in Seq(Int) /\ g.pos \in Int
  BY DEF Stands, ReaderOK
<1>2. PICK d : d = Drop(g.out, m)
  OBVIOUS
<1>3. PICK x : x = g.pos + m
  OBVIOUS
<1>4. d \in Seq(Int) /\ x \in Int /\ Takes(t, g, d, x, seek) /\ Is(x + Len(d), g.pos + Len(g.out))
  <2>1. PICK s : Is(s, TakenOut(g, m))
    BY DEF Is
  <2> QED BY <1>1, <1>2, <1>3, <2>1, TakenOutIs
<1>5. ReaderOK(t) /\ ModeOK(t, file) /\ Is(t.pos + Len(t.out), g.pos + Len(g.out)) /\ HasTaken(t, g, d, x, seek)
  BY <1>1, <1>4, TakesMode
<1>6. PICK e : Is(e, g.pos + Len(g.out))
  BY DEF Is
<1>7. e \in Nat /\ SegOf(<<>>, g.out, Content(file), e)
  BY <1>6, SegNow
<1>8. Is(d, Drop(g.out, m)) /\ Content(file) \in Seq(Unit)
  BY <1>2, ContentType DEF Is
<1>13. PICK none \in Seq(Int) : none = <<>>
  <2>1. <<>> \in Seq(Int)
    OBVIOUS
  <2> QED BY <2>1
<1>14. SegOf(none, g.out, Content(file), e)
  BY <1>7, <1>13
<1>9. SegOf(<<>>, d, Content(file), e)
  BY <1>1, <1>7, <1>8, <1>14, SegOfSkip
<1>10. SegOf(<<>>, t.out, Content(file), t.pos + Len(t.out))
  BY <1>5, <1>6, <1>9 DEF HasTaken, Is
<1>11. ReaderOK(t) /\ ModeOK(t, file)
  BY <1>5
<1>12. Stands(t, NoCall, 0, file)
  BY <1>10, <1>11, NoneStands
<1> QED BY <1>11, <1>12 DEF ReaderOK

LEMMA DropNone ==
  ASSUME NEW s \in Seq(Int)
  PROVE  Drop(s, 0) = s
<1>1. PICK d \in Seq(Int) : d = Drop(s, 0)
  BY DropAt
<1>2. Len(d) = Len(s) /\ \A i \in 1 .. Len(s) : d[i] = s[i]
  BY <1>1 DEF Drop
<1> QED BY <1>1, <1>2, SameSeq

LEMMA SeekStands ==
  ASSUME NEW g, NEW k, NEW n, file \in Seq(Unit), Stands(g, k, n, file), NEW seek \in Nat,
         NEW t, Is(t, [g EXCEPT !.seek = seek])
  PROVE  Stands(t, NoCall, 0, file) /\ DOMAIN t = RFields
<1>1. ReaderOK(g) /\ DOMAIN g = RFields /\ g.out \in Seq(Int) /\ g.pos \in Int
  BY DEF Stands, ReaderOK
<1>2. Drop(g.out, 0) = g.out /\ g.pos + 0 = g.pos /\ 0 <= Len(g.out)
  BY <1>1, DropNone
<1>3. Takes(t, g, Drop(g.out, 0), g.pos + 0, seek)
  BY <1>1, <1>2 DEF Takes, Is, RFields
<1> QED BY <1>2, <1>3, TakesStands

(* A file that has just been opened, or rewound. *)
Fresh(t) == ReaderOK(t) /\ t.in = <<>> /\ t.out = <<>> /\ t.fpos = 0 /\ t.pos = 0 /\ t.how = "LOOK" /\ t.eof = FALSE

LEMMA FreshStands ==
  ASSUME NEW t, Fresh(t), NEW f \in Seq(Unit)
  PROVE  Stands(t, NoCall, 0, f) /\ DOMAIN t = RFields
<1>1. PICK z \in Seq(Unit) : z = <<>> /\ Len(z) = 0
  <2>1. <<>> \in Seq(Unit) /\ Len(<<>>) = 0
    OBVIOUS
  <2> QED BY <2>1
<1>2. Len(f) \in Nat /\ Take(f, 0) = z
  <2>1. Len(f) \in Nat
    OBVIOUS
  <2>2. Take(f, 0) \in Seq(Unit) /\ Len(Take(f, 0)) = 0
    BY <2>1, TakeAt
  <2> QED BY <1>1, <2>1, <2>2, EmptySeq
<1>3. Known(f, 0).how = "look" /\ Len(Known(f, 0).data) = 0
  <2>1. Known(f, 0) = [how |-> "look", data |-> <<>>]
    BY <1>1, <1>2, DecodedNone DEF Known, Start
  <2> QED BY <1>1, <2>1
<1>4. Used1(f, 0, "look", 0)
  BY <1>2, <1>3 DEF Used1
<1>5. InFile(z, 0, FALSE, f)
  BY <1>1, <1>2 DEF InFile
<1>6. t.fpos - Len(t.in) = 0 /\ t.pos + Len(t.out) = 0 /\ t.in = z /\ t.fpos = 0 /\ t.eof = FALSE /\ t.how = "LOOK"
  <2>1. t.in = z /\ t.fpos = 0 /\ t.eof = FALSE /\ t.how = "LOOK" /\ t.pos = 0 /\ t.out = z
    BY <1>1 DEF Fresh
  <2>2. Len(t.in) = 0 /\ Len(t.out) = 0
    BY <1>1, <2>1
  <2>3. t.fpos - Len(t.in) = 0 /\ t.pos + Len(t.out) = 0
    BY <2>1, <2>2
  <2> QED BY <2>1, <2>3
<1>7. ModeOK(t, f)
  BY <1>4, <1>5, <1>6 DEF ModeOK, InMember
<1>8. SegOf(<<>>, t.out, Content(f), t.pos + Len(t.out))
  BY <1>6, ContentType, SegOfEmpty DEF Fresh
<1>9. ReaderOK(t)
  BY DEF Fresh
<1> QED BY <1>7, <1>8, <1>9, NoneStands DEF ReaderOK

LEMMA RewoundFresh ==
  ASSUME NEW g, ReaderOK(g), NEW t, Is(t, Rewound(g))
  PROVE  Fresh(t)
<1>1. DOMAIN g = RFields /\ g.size \in Nat /\ g.want \in Nat /\ g.want > 0 /\ g.raw \in Int
  BY DEF ReaderOK
<1>2. PICK h : h = [g EXCEPT !.fpos = 0]
  OBVIOUS
<1>3. DOMAIN h = RFields /\ h.size = g.size /\ h.want = g.want /\ h.raw = g.raw /\ h.fpos = 0
  BY <1>1, <1>2 DEF RFields
<1>4. t = gz_reset(h)
  BY <1>2 DEF Is, Rewound
<1>5. /\ DOMAIN t = RFields /\ t.size = g.size /\ t.want = g.want /\ t.raw = g.raw /\ t.fpos = 0 /\ t.in = <<>> /\ t.out = <<>>
      /\ t.eof = FALSE /\ t.how = "LOOK" /\ t.seek = 0 /\ t.err = "OK" /\ t.pos = 0
  BY <1>3, <1>4 DEF gz_reset, RFields
<1>6. t.in \in Seq(Unit) /\ t.out \in Seq(Int)
  BY <1>5, EmptySeq
<1>8. /\ DOMAIN t = RFields /\ t.size \in Nat /\ t.want \in Nat /\ t.want > 0 /\ t.raw \in Int /\ t.fpos \in Nat
      /\ t.eof \in BOOLEAN /\ t.how = "LOOK" /\ t.seek \in Nat /\ t.err = "OK" /\ t.pos \in Int
  <2>1. t.eof \in BOOLEAN
    BY <1>5, Zenon
  <2>2. /\ DOMAIN t = RFields /\ t.size = g.size /\ t.want = g.want /\ t.raw = g.raw /\ t.fpos = 0
        /\ t.how = "LOOK" /\ t.seek = 0 /\ t.err = "OK" /\ t.pos = 0
    BY <1>5
  <2> QED BY <1>1, <2>1, <2>2
<1>7. ReaderOK(t)
  BY <1>6, <1>8 DEF ReaderOK
<1> QED BY <1>5, <1>7 DEF Fresh

LEMMA OpenFresh ==
  ASSUME NEW want \in Nat, want > 0, NEW t, Is(t, gz_open(want))
  PROVE  Fresh(t)
<1> DEFINE g == [size |-> 0, want |-> want, in |-> <<>>, out |-> <<>>, fpos |-> 0,
                 pos |-> 0, raw |-> 0, eof |-> FALSE, how |-> "LOOK",
                 direct |-> TRUE, seek |-> 0, err |-> "OK"]
<1>1. DOMAIN g = RFields /\ g.size = 0 /\ g.want = want /\ g.raw = 0 /\ g.fpos = 0
  BY DEF RFields
<1>2. t = gz_reset(g)
  BY DEF Is, gz_open
<1> HIDE DEF g
<1>3. /\ DOMAIN t = RFields /\ t.size = 0 /\ t.want = want /\ t.raw = 0 /\ t.fpos = 0 /\ t.in = <<>> /\ t.out = <<>>
      /\ t.eof = FALSE /\ t.how = "LOOK" /\ t.seek = 0 /\ t.err = "OK" /\ t.pos = 0
  BY <1>1, <1>2 DEF gz_reset, RFields
<1>4. t.in \in Seq(Unit) /\ t.out \in Seq(Int)
  BY <1>3, EmptySeq
<1>6. /\ DOMAIN t = RFields /\ t.size \in Nat /\ t.want \in Nat /\ t.want > 0 /\ t.raw \in Int /\ t.fpos \in Nat
      /\ t.eof \in BOOLEAN /\ t.how = "LOOK" /\ t.seek \in Nat /\ t.err = "OK" /\ t.pos \in Int
  <2>1. t.eof \in BOOLEAN
    BY <1>3, Zenon
  <2>2. /\ DOMAIN t = RFields /\ t.size = 0 /\ t.want = want /\ t.raw = 0 /\ t.fpos = 0
        /\ t.how = "LOOK" /\ t.seek = 0 /\ t.err = "OK" /\ t.pos = 0
    BY <1>3
  <2> QED BY <2>1, <2>2
<1>5. ReaderOK(t)
  BY <1>4, <1>6 DEF ReaderOK
<1> QED BY <1>3, <1>5 DEF Fresh

(* A call begins. *)
LEMMA BeginReads ==
  ASSUME Stands(state, rcall, skipping, file), file \in Seq(Unit), NEW op, op # "closed", NEW n \in Nat, op = "read" => n > 0,
         Begin(op, n)
  PROVE  Reads'
<1>1. ReaderOK(state) /\ state.seek \in Nat
  BY DEF Stands, ReaderOK
<1>2. PICK t : Is(t, [state EXCEPT !.seek = 0])
  BY DEF Is
<1>3. Stands(t, NoCall, 0, file)
  BY <1>2, SeekStands
<1>4. PICK k : k = [NoCall EXCEPT !.op = op, !.over = FALSE, !.left = n]
  OBVIOUS
<1>5. RCallOK(k) /\ k.op = op /\ k.over = FALSE /\ k.left = n /\ k.buf = <<>>
  <2>1. DOMAIN NoCall = CallFields /\ NoCall.buf = <<>> /\ NoCall.buf \in Seq(Int)
    BY NoCallOK DEF RCallOK
  <2>2. DOMAIN k = CallFields /\ k.op = op /\ k.over = FALSE /\ k.left = n /\ k.buf = NoCall.buf
    BY <1>4, <2>1 DEF CallFields
  <2>3. k.over \in BOOLEAN
    BY <2>2, Zenon
  <2> QED BY <2>1, <2>2, <2>3 DEF RCallOK
<1>6. Stands(t, k, state.seek, file)
  BY <1>1, <1>3, <1>5, NoCallOK DEF Stands
<1>7. state' = t /\ rcall' = k /\ skipping' = state.seek /\ file' = file
  BY <1>2, <1>4 DEF Begin, Is
<1> QED BY <1>6, <1>7 DEF Reads

LEMMA getcReads ==
  ASSUME Stands(state, rcall, skipping, file), file \in Seq(Unit), gzgetc
  PROVE  Reads'
<1>1. CASE state.out = <<>>
  <2>1. Begin("read", 1)
    BY <1>1 DEF gzgetc
  <2> QED BY <2>1, BeginReads
<1>2. CASE state.out # <<>>
  <2>1. ReaderOK(state) /\ state.out \in Seq(Int) /\ rcall.over
    BY DEF Stands, ReaderOK, gzgetc, Ready
  <2>2. skipping = 0
    BY <2>1 DEF Stands
  <2>3. 1 <= Len(state.out)
    BY <1>2, <2>1, TailAt
  <2>4. PICK t : Is(t, TakenOut(state, 1))
    BY DEF Is
  <2>5. PICK s : Is(s, [state EXCEPT !.seek = 0])
    BY DEF Is
  <2>6. PICK b \in Seq(Int) : b = Take(state.out, 1)
    BY <2>1, <2>3, TakeAt
  <2>7. Fits(t, b)
    <3>1. PICK e : Is(e, state.pos + Len(state.out))
      BY DEF Is
    <3>2. e \in Nat /\ SegOf(<<>>, state.out, Content(file), e)
      BY <3>1, SegNow
    <3>3. SegOf(NoCall.buf, state.out, Content(file), state.pos + Len(state.out))
      BY <3>1, <3>2, NoCallOK DEF Is
    <3>4. Stands(state, NoCall, 0, file)
      BY <3>3, NoCallOK DEF Stands
    <3>5. Is(b, NoCall.buf \o Take(state.out, 1))
      <4>1. <<>> \o b = b
        BY EmptyConcat
      <4> QED BY <2>6, <4>1, NoCallOK DEF Is
    <3> QED BY <2>3, <2>4, <3>4, <3>5, TakenFits
  <2>8. PICK k : k = [NoCall EXCEPT !.op = "read", !.buf = b]
    OBVIOUS
  <2>9. RCallOK(k) /\ k.over /\ k.left = 0 /\ k.buf = b
    <3>1. DOMAIN NoCall = CallFields /\ NoCall.left = 0 /\ NoCall.over \in BOOLEAN /\ NoCall.over
      BY NoCallOK DEF RCallOK
    <3>2. DOMAIN k = CallFields /\ k.left = 0 /\ k.buf = b /\ k.over = NoCall.over
      BY <2>8, <3>1 DEF CallFields
    <3> QED BY <3>1, <3>2 DEF RCallOK
  <2>10. Stands(t, k, 0, file)
    BY <2>7, <2>9 DEF Stands, Fits
  <2>11. state' = t /\ rcall' = k /\ skipping' = 0 /\ file' = file
    BY <1>2, <2>2, <2>4, <2>6, <2>8 DEF gzgetc, Is
  <2> QED BY <2>10, <2>11 DEF Reads
<1> QED BY <1>1, <1>2

LEMMA rewindReads ==
  ASSUME Stands(state, rcall, skipping, file), file \in Seq(Unit), gzrewind
  PROVE  Reads'
<1>1. rcall.over /\ ReaderOK(state) /\ skipping = 0
  BY DEF gzrewind, Ready, Stands
<1>2. PICK t : Is(t, Rewound(state))
  BY DEF Is
<1>3. Quick(t)
  BY <1>2 DEF gzrewind, Is
<1>4. Stands(t, NoCall, 0, file) /\ DOMAIN t = RFields
  BY <1>1, <1>2, RewoundFresh, FreshStands
<1> QED BY <1>1, <1>3, <1>4, QuickReads

(* gzseek64() where the file is copied. *)
Seeks(t, g, p, x) == t = [g EXCEPT !.fpos = p, !.out = <<>>, !.eof = FALSE, !.seek = 0, !.in = <<>>, !.pos = x]
HasSought(t, g, p, x) ==
  ReaderOK(t) /\ t.fpos = p /\ t.out = <<>> /\ t.in = <<>> /\ t.pos = x /\ t.how = g.how /\ t.raw = g.raw

LEMMA SeekReader ==
  ASSUME NEW g, ReaderOK(g), NEW p \in Nat, NEW x \in Int, NEW t, Seeks(t, g, p, x)
  PROVE  HasSought(t, g, p, x)
<1>1. <<>> \in Seq(Int) /\ <<>> \in Seq(Unit)
  OBVIOUS
<1> QED BY <1>1 DEF ReaderOK, RFields, Seeks, HasSought

LEMMA SeekRawReads ==
  ASSUME Stands(state, rcall, skipping, file), file \in Seq(Unit), skipping = 0, NEW offset \in Int, state.how = "COPY",
         state.pos + offset >= state.raw, Quick(SeekRaw(offset))
  PROVE  Reads'
<1>1. ReaderOK(state) /\ state.pos \in Int /\ state.fpos \in Nat /\ state.raw \in Int /\ state.out \in Seq(Int)
      /\ InRaw(state, file)
  BY DEF Stands, ReaderOK, ModeOK
<1>2. PICK L \in Nat : L = Len(state.out)
  BY <1>1
<1>3. PICK q \in Nat : q = state.fpos
  BY <1>1
<1>4. PICK y \in Int : y = state.pos
  BY <1>1
<1>5. PICK raw \in Int : raw = state.raw
  BY <1>1
<1>6. PICK r \in Nat : Copies(file, r, raw, q, y + L)
  BY <1>1, <1>2, <1>3, <1>4, <1>5 DEF InRaw
<1>7. q - r = (y + L) - raw /\ y + offset >= raw
  BY <1>4, <1>5, <1>6 DEF Copies
<1>8. q + offset - L \in Nat /\ q + offset - L >= r /\ (q + offset - L) - r = (y + offset) - raw
  BY <1>7
<1>9. PICK p \in Nat : p = q + offset - L
  BY <1>8
<1>10. PICK x \in Int : x = y + offset
  OBVIOUS
<1>11. Copies(file, r, raw, p, x)
  BY <1>6, <1>8, <1>9, <1>10 DEF Copies
<1>12. PICK t : t = SeekRaw(offset)
  OBVIOUS
<1>13. Seeks(t, state, p, x)
  BY <1>2, <1>3, <1>4, <1>9, <1>10, <1>12 DEF SeekRaw, Seeks
<1>14. HasSought(t, state, p, x)
  BY <1>1, <1>13, SeekReader
<1>15. ReaderOK(t) /\ t.how = "COPY" /\ t.out = <<>> /\ t.in = <<>> /\ t.raw = raw /\ t.fpos = p /\ t.pos = x /\ DOMAIN t = RFields
  BY <1>5, <1>14 DEF HasSought, ReaderOK
<1>16. t.pos + Len(t.out) = x
  BY <1>15
<1>17. ModeOK(t, file)
  BY <1>11, <1>15, <1>16 DEF ModeOK, InRaw
<1>18. SegOf(<<>>, t.out, Content(file), t.pos + Len(t.out))
  BY <1>15, <1>16, ContentType, SegOfEmpty
<1>19. Stands(t, NoCall, 0, file)
  BY <1>15, <1>17, <1>18, NoneStands
<1> QED BY <1>12, <1>15, <1>19, QuickReads

(* gzseek64() *)
LEMMA SeekReads ==
  ASSUME Stands(state, rcall, skipping, file), file \in Seq(Unit), skipping = 0, NEW offset \in Int, SeekTo(offset)
  PROVE  Reads'
<1>1. ReaderOK(state) /\ state.pos \in Int /\ state.out \in Seq(Int) /\ DOMAIN state = RFields
  BY DEF Stands, ReaderOK
<1>2. CASE state.how = "COPY" /\ state.pos + offset >= state.raw
  <2>1. Quick(SeekRaw(offset))
    BY <1>2 DEF SeekTo
  <2> QED BY <1>2, <2>1, SeekRawReads
<1>3. CASE ~(state.how = "COPY" /\ state.pos + offset >= state.raw) /\ offset < 0 /\ state.pos + offset < 0
  <2>1. PICK t : Is(t, [state EXCEPT !.seek = 0])
    BY DEF Is
  <2>2. Quick(t)
    BY <1>3, <2>1 DEF SeekTo, Is
  <2>3. Stands(t, NoCall, 0, file) /\ DOMAIN t = RFields
    BY <2>1, SeekStands
  <2> QED BY <2>2, <2>3, QuickReads
<1>4. CASE ~(state.how = "COPY" /\ state.pos + offset >= state.raw) /\ ~(offset < 0 /\ state.pos + offset < 0)
  <2>1. PICK g : Is(g, IF offset < 0 THEN Rewound(state) ELSE [state EXCEPT !.seek = 0])
    BY DEF Is
  <2>2. PICK ahead \in Nat : ahead = IF offset < 0 THEN state.pos + offset ELSE offset
    <3>1. (IF offset < 0 THEN state.pos + offset ELSE offset) \in Nat
      BY <1>1, <1>4
    <3> QED BY <3>1
  <2>3. Stands(g, NoCall, 0, file)
    <3>1. CASE offset < 0
      <4>1. Is(g, Rewound(state))
        BY <2>1, <3>1 DEF Is
      <4> QED BY <1>1, <4>1, RewoundFresh, FreshStands
    <3>2. CASE ~(offset < 0)
      <4>1. Is(g, [state EXCEPT !.seek = 0])
        BY <2>1, <3>2 DEF Is
      <4> QED BY <4>1, SeekStands
    <3> QED BY <3>1, <3>2
  <2>4. ReaderOK(g) /\ g.out \in Seq(Int) /\ Len(g.out) \in Nat /\ DOMAIN g = RFields
    BY <2>3 DEF Stands, ReaderOK
  <2>5. PICK n \in Nat : n = Lesser(ahead, Len(g.out)) /\ n <= ahead /\ n <= Len(g.out)
    <3>1. PICK n \in Nat : n = Lesser(ahead, Len(g.out))
      BY <2>4 DEF Lesser
    <3>2. n <= ahead /\ n <= Len(g.out)
      BY <2>4, <3>1 DEF Lesser
    <3> QED BY <3>1, <3>2
  <2>6. PICK seek \in Nat : seek = ahead - n
    BY <2>5
  <2>7. PICK t : Is(t, [TakenOut(g, n) EXCEPT !.seek = seek])
    BY DEF Is
  <2>8. Quick(t)
    BY <1>4, <2>1, <2>2, <2>5, <2>6, <2>7, Zenon DEF SeekTo, Is
  <2>9. Takes(t, g, Drop(g.out, n), g.pos + n, seek)
    BY <2>4, <2>7 DEF Takes, Is, TakenOut, RFields
  <2>10. Stands(t, NoCall, 0, file) /\ DOMAIN t = RFields
    BY <2>3, <2>5, <2>9, TakesStands
  <2> QED BY <2>8, <2>10, QuickReads
<1> QED BY <1>2, <1>3, <1>4

LEMMA directReads ==
  ASSUME Stands(state, rcall, skipping, file), file \in Seq(Unit), gzdirect
  PROVE  Reads'
<1>1. rcall.over /\ ReaderOK(state) /\ ModeOK(state, file) /\ skipping = 0 /\ state.how = "LOOK" /\ state.out = <<>>
  BY DEF gzdirect, Stands
<1>2. PICK t : Is(t, gz_head(state))
  BY DEF Is
<1>3. Quick(t)
  BY <1>2 DEF gzdirect, Is
<1>4. Made(t, state)
  BY <1>1, <1>2, HeadMade
<1>5. Stands(state, NoCall, 0, file)
  <2>1. PICK e : Is(e, state.pos + Len(state.out))
    BY DEF Is
  <2>2. SegOf(<<>>, state.out, Content(file), e)
    BY <2>1, SegNow
  <2>3. SegOf(<<>>, state.out, Content(file), state.pos + Len(state.out))
    BY <2>1, <2>2 DEF Is
  <2>4. ReaderOK(state) /\ ModeOK(state, file)
    BY <1>1
  <2> QED BY <2>3, <2>4, NoneStands
<1>6. NoCall.op # "read"
  BY NoCallOK
<1>7. DOMAIN t = RFields /\ (t.err = "OK" => Stands(t, NoCall, 0, file))
  BY <1>1, <1>4, <1>5, <1>6, MadeStands
<1> QED BY <1>1, <1>3, <1>7, QuickReads

(* Fields that do not bear on what has been read. *)
LEMMA KeepsStands ==
  ASSUME Stands(state, rcall, skipping, file), file \in Seq(Unit), NEW t, ReaderOK(t), t.in = state.in, t.out = state.out,
         t.fpos = state.fpos, t.pos = state.pos, t.raw = state.raw, t.how = state.how, t.eof = state.eof \/ t.eof = FALSE
  PROVE  Stands(t, NoCall, 0, file)
<1>1. ModeOK(state, file)
  BY DEF Stands
<1>2. \A f : InFile(state.in, state.fpos, state.eof, f) => InFile(t.in, t.fpos, t.eof, f)
  BY DEF InFile
<1>3. InMember(state, file, "look") => InMember(t, file, "look")
  BY <1>2 DEF InMember
<1>4. InMember(state, file, "data") => InMember(t, file, "data")
  BY <1>2 DEF InMember
<1>5. InRaw(state, file) => InRaw(t, file)
  BY DEF InRaw
<1>6. ModeOK(t, file)
  BY <1>1, <1>3, <1>4, <1>5 DEF ModeOK
<1>7. SegOf(<<>>, t.out, Content(file), t.pos + Len(t.out))
  <2>1. PICK e : Is(e, state.pos + Len(state.out))
    BY DEF Is
  <2>2. SegOf(<<>>, state.out, Content(file), e)
    BY <2>1, SegNow
  <2> QED BY <2>1, <2>2 DEF Is
<1> QED BY <1>6, <1>7, NoneStands

LEMMA bufferReads ==
  ASSUME Stands(state, rcall, skipping, file), file \in Seq(Unit), NEW want \in Nat, want > 0, gzbuffer(want)
  PROVE  Reads'
<1>1. rcall.over /\ ReaderOK(state) /\ skipping = 0
  BY DEF gzbuffer, Stands
<1>2. PICK t : t = [state EXCEPT !.want = want]
  OBVIOUS
<1>3. Quick(t)
  BY <1>2 DEF gzbuffer
<1>4. ReaderOK(t) /\ t.in = state.in /\ t.out = state.out /\ t.fpos = state.fpos /\ t.pos = state.pos
      /\ t.raw = state.raw /\ t.how = state.how /\ t.eof = state.eof
  BY <1>1, <1>2 DEF ReaderOK, RFields
<1>5. Stands(t, NoCall, 0, file)
  BY <1>4, KeepsStands
<1>6. DOMAIN t = RFields
  BY <1>4 DEF ReaderOK
<1> QED BY <1>1, <1>3, <1>5, <1>6, QuickReads

LEMMA clearerrReads ==
  ASSUME Stands(state, rcall, skipping, file), file \in Seq(Unit), gzclearerr
  PROVE  Reads'
<1>1. rcall.over /\ ReaderOK(state) /\ skipping = 0 /\ state.err = "OK"
  BY DEF gzclearerr, Stands, ReaderOK
<1>2. PICK t : t = [state EXCEPT !.eof = FALSE, !.err = "OK"]
  OBVIOUS
<1>3. state' = t /\ rcall' = NoCall /\ skipping' = 0 /\ file' = file
  BY <1>1, <1>2 DEF gzclearerr
<1>4. ReaderOK(t) /\ t.in = state.in /\ t.out = state.out /\ t.fpos = state.fpos /\ t.pos = state.pos
      /\ t.raw = state.raw /\ t.how = state.how /\ t.eof = FALSE
  BY <1>1, <1>2 DEF ReaderOK, RFields
<1>5. Stands(t, NoCall, 0, file)
  BY <1>4, KeepsStands
<1> QED BY <1>3, <1>5 DEF Reads

LEMMA closeReads ==
  ASSUME Stands(state, rcall, skipping, file), file \in Seq(Unit), gzclose_r
  PROVE  Reads'
<1>1. rcall.over /\ ReaderOK(state) /\ skipping = 0
  BY DEF gzclose_r, Stands
<1>2. PICK k : k = [NoCall EXCEPT !.op = "closed", !.over = FALSE]
  OBVIOUS
<1>3. RCallOK(k) /\ k.op = "closed" /\ k.buf = <<>>
  <2>1. DOMAIN NoCall = CallFields /\ NoCall.buf = <<>> /\ NoCall.left \in Nat /\ NoCall.buf \in Seq(Int)
    BY NoCallOK DEF RCallOK
  <2>2. DOMAIN k = CallFields /\ k.op = "closed" /\ k.over = FALSE /\ k.left = NoCall.left /\ k.buf = NoCall.buf
    BY <1>2, <2>1 DEF CallFields
  <2>3. k.over \in BOOLEAN
    BY <2>2, Zenon
  <2> QED BY <2>1, <2>2, <2>3 DEF RCallOK
<1>4. Stands(state, NoCall, 0, file)
  <2>1. ReaderOK(state) /\ state.eof = state.eof
    BY <1>1
  <2> QED BY <2>1, KeepsStands
<1>5. Stands(state, k, 0, file)
  BY <1>3, <1>4, NoCallOK DEF Stands
<1>6. state' = state /\ rcall' = k /\ skipping' = 0 /\ file' = file
  BY <1>1, <1>2 DEF gzclose_r
<1> QED BY <1>5, <1>6 DEF Reads

(* The file grows. *)
LEMMA GrowMode ==
  ASSUME NEW g, ReaderOK(g), NEW f \in Seq(Unit), NEW h \in Seq(Unit), Begins(f, h), Decoded(f).how # "id1", ModeOK(g, f)
  PROVE  ModeOK(g, h)
<1>1. Len(f) \in Nat /\ Len(h) \in Nat /\ Len(f) <= Len(h) /\ g.in \in Seq(Unit) /\ Len(g.in) \in Nat /\ g.fpos \in Nat
  BY DEF Begins, ReaderOK
<1>2. ASSUME NEW how, NEW n, NEW e, Used1(f, n, how, e) PROVE Used1(h, n, how, e)
  <2>1. n \in Nat /\ n <= Len(f)
    BY <1>2 DEF Used1
  <2>2. Known(h, n) = Known(f, n) /\ n <= Len(h)
    BY <1>1, <2>1, KnownGrows
  <2> QED BY <1>2, <2>2 DEF Used1
<1>3. ASSUME InFile(g.in, g.fpos, g.eof, f) PROVE InFile(g.in, g.fpos, g.eof, h)
  <2>1. g.fpos <= Len(f) /\ Len(g.in) <= g.fpos
    BY <1>3 DEF InFile
  <2>2. PICK p \in Nat : p = g.fpos
    BY <1>1
  <2>3. Known(h, p) = Known(f, p) /\ p <= Len(h)
    BY <1>1, <2>1, <2>2, KnownGrows
  <2>4. p = Len(f) => Known(f, p).how # "id1"
    BY KnownAll
  <2>5. g.eof => Known(h, p).how # "id1"
    BY <1>3, <2>2, <2>3, <2>4 DEF InFile
  <2>6. ASSUME NEW i \in 1 .. Len(g.in) PROVE g.in[i] = h[(p - Len(g.in)) + i]
    <3>1. (p - Len(g.in)) + i \in 1 .. Len(f)
      BY <1>1, <2>1, <2>2
    <3>2. g.in[i] = f[(p - Len(g.in)) + i]
      BY <1>3, <2>2 DEF InFile
    <3> QED BY <3>1, <3>2 DEF Begins
  <2> QED BY <2>1, <2>2, <2>3, <2>5, <2>6 DEF InFile
<1>4. ASSUME InRaw(g, f) PROVE InRaw(g, h)
  <2>1. g.in = <<>>
    BY <1>4 DEF InRaw
  <2>2. PICK r \in Nat : Copies(f, r, g.raw, g.fpos, g.pos + Len(g.out))
    BY <1>4 DEF InRaw
  <2>3. RawFrom(f, r) /\ r <= Len(f)
    BY <1>1, <2>2 DEF Copies, RawFrom
  <2>4. RawFrom(h, r) /\ Known(h, r) = Known(f, r)
    BY <2>3, RawGrows, KnownGrows
  <2>5. Copies(h, r, g.raw, g.fpos, g.pos + Len(g.out))
    BY <2>2, <2>4 DEF Copies
  <2> QED BY <2>1, <2>5 DEF InRaw
<1>5. InMember(g, f, "look") => InMember(g, h, "look")
  BY <1>2, <1>3 DEF InMember
<1>6. InMember(g, f, "data") => InMember(g, h, "data")
  BY <1>2, <1>3 DEF InMember
<1> QED BY <1>4, <1>5, <1>6 DEF ModeOK

LEMMA GrowReads ==
  ASSUME Stands(state, rcall, skipping, file), file \in Seq(Unit), whole \in Seq(Unit), Begins(file, whole), Grow
  PROVE  Reads'
<1>1. Decoded(file).how # "id1" /\ file' = whole /\ state' = state /\ rcall' = rcall /\ skipping' = skipping
  BY DEF Grow
<1>2. ReaderOK(state) /\ ModeOK(state, file) /\ RCallOK(rcall) /\ rcall.buf \in Seq(Int) /\ state.out \in Seq(Int)
  BY DEF Stands, ReaderOK, RCallOK
<1>3. ModeOK(state, whole)
  BY <1>1, <1>2, GrowMode
<1>4. PICK e \in Nat : e = state.pos + Len(state.out)
  BY <1>2, EndNat
<1>5. Begins(Content(file), Content(whole)) /\ Content(file) \in Seq(Unit) /\ Content(whole) \in Seq(Unit)
  BY <1>1, ContentGrows, ContentType
<1>6. SegOf(rcall.buf, state.out, Content(file), e)
  BY <1>4 DEF Stands
<1>7. SegOf(rcall.buf, state.out, Content(whole), e)
  BY <1>2, <1>5, <1>6, SegOfGrow
<1>8. Stands(state, rcall, skipping, whole)
  BY <1>3, <1>4, <1>7 DEF Stands
<1> QED BY <1>1, <1>8 DEF Reads

FilesOK == file \in Seq(Unit) /\ whole \in Seq(Unit) /\ Begins(file, whole)

LEMMA StandsNext ==
  ASSUME FilesOK, Stands(state, rcall, skipping, file), RNext
  PROVE  Reads'
<1>1. file \in Seq(Unit) /\ whole \in Seq(Unit) /\ Begins(file, whole)
  BY DEF FilesOK
<1>2. ASSUME NEW n \in Lens, gzread(n) \/ gzgets(n) PROVE Reads'
  <2>1. n \in Nat /\ n > 0 /\ n - 1 \in Nat
    BY GzReadAssumption
  <2>2. CASE gzread(n)
    <3>1. Begin("read", n)
      BY <2>2 DEF gzread
    <3> QED BY <1>1, <2>1, <3>1, BeginReads
  <2>3. CASE gzgets(n)
    <3>1. Begin("gets", n - 1)
      BY <2>3 DEF gzgets
    <3> QED BY <1>1, <2>1, <3>1, BeginReads
  <2> QED BY <1>2, <2>2, <2>3
<1>3. CASE gzungetc
  <2>1. Begin("unget", 0)
    BY <1>3 DEF gzungetc
  <2> QED BY <1>1, <2>1, BeginReads
<1>4. CASE gzgetc
  BY <1>1, <1>4, getcReads
<1>5. CASE Skip
  BY <1>1, <1>5, SkipReads
<1>6. CASE Read
  BY <1>1, <1>6, ReadReads
<1>7. CASE Gets
  BY <1>1, <1>7, GetsReads
<1>8. CASE Unget
  BY <1>1, <1>8, UngetReads
<1>9. CASE gzrewind
  BY <1>1, <1>9, rewindReads
<1>10. CASE gzdirect
  BY <1>1, <1>10, directReads
<1>11. CASE gzclearerr
  BY <1>1, <1>11, clearerrReads
<1>12. CASE gzclose_r
  BY <1>1, <1>12, closeReads
<1>13. CASE Grow
  BY <1>1, <1>13, GrowReads
<1>14. ASSUME NEW offset \in Offsets, gzseek_set(offset) \/ gzseek_cur(offset) \/ gzseek_cur(-offset) PROVE Reads'
  <2>1. offset \in Int /\ state.pos \in Int /\ state.seek \in Nat
    BY GzReadAssumption DEF Stands, ReaderOK
  <2>2. rcall.over
    BY <1>14 DEF gzseek_set, gzseek_cur, Ready
  <2>3. skipping = 0
    BY <2>2 DEF Stands
  <2>4. PICK x \in Int : SeekTo(x)
    <3>1. offset - state.pos \in Int /\ offset + state.seek \in Int /\ -offset + state.seek \in Int
      BY <2>1
    <3> QED BY <1>14, <3>1 DEF gzseek_set, gzseek_cur
  <2> QED BY <1>1, <2>3, <2>4, SeekReads
<1>15. ASSUME NEW want \in Wants, gzbuffer(want) PROVE Reads'
  <2>1. want \in Nat /\ want > 0
    BY GzReadAssumption
  <2> QED BY <1>1, <1>15, <2>1, bufferReads
<1> QED BY <1>2, <1>3, <1>4, <1>5, <1>6, <1>7, <1>8, <1>9, <1>10, <1>11, <1>12, <1>13, <1>14, <1>15 DEF RNext

LEMMA FailedNext ==
  ASSUME FailedRead(state, rcall, skipping), RNext
  PROVE  Reads' \/ cleared'
<1>1. DOMAIN state = RFields /\ state.err # "OK" /\ (rcall.over \/ rcall.op = "closed") /\ skipping = 0 /\ ~Ready
  BY DEF FailedRead, Ready
<1>2. \/ gzdirect \/ gzclearerr \/ gzclose_r \/ Grow \/ \E want \in Wants : gzbuffer(want)
  BY <1>1 DEF RNext, gzread, gzgets, gzungetc, gzgetc, Skip, Read, Gets, Unget, gzrewind, gzseek_set, gzseek_cur
<1>3. ASSUME NEW t, Quick(t), DOMAIN t = RFields, t.err # "OK" PROVE Reads'
  BY <1>1, <1>3, QuickReads
<1>4. CASE gzdirect
  <2>1. PICK t : Is(t, gz_head(state))
    BY DEF Is
  <2>2. Quick(t)
    BY <1>4, <2>1 DEF gzdirect, Is
  <2>3. DOMAIN t = RFields /\ t.err # "OK"
    BY <1>1, <2>1, HeadErr
  <2> QED BY <1>3, <2>2, <2>3
<1>5. CASE gzclearerr
  BY <1>1, <1>5 DEF gzclearerr
<1>6. CASE gzclose_r
  <2>1. state' = state /\ rcall' = [NoCall EXCEPT !.op = "closed", !.over = FALSE] /\ skipping' = 0
    BY <1>1, <1>6 DEF gzclose_r
  <2>2. rcall'.op = "closed"
    BY <2>1 DEF NoCall
  <2>3. FailedRead(state', rcall', skipping')
    BY <1>1, <2>1, <2>2 DEF FailedRead
  <2> QED BY <2>3 DEF Reads
<1>7. CASE Grow
  <2>1. FailedRead(state', rcall', skipping')
    BY <1>7 DEF Grow
  <2> QED BY <2>1 DEF Reads
<1>8. ASSUME NEW want \in Wants, gzbuffer(want) PROVE Reads'
  <2>1. PICK t : t = [state EXCEPT !.want = want]
    OBVIOUS
  <2>2. Quick(t)
    BY <1>8, <2>1 DEF gzbuffer
  <2>3. DOMAIN t = RFields /\ t.err # "OK"
    BY <1>1, <2>1 DEF RFields
  <2> QED BY <1>3, <2>2, <2>3
<1> QED BY <1>2, <1>4, <1>5, <1>6, <1>7, <1>8

LEMMA CrashedNext ==
  ASSUME Crashed(state, rcall, skipping), RNext
  PROVE  FALSE
<1>1. rcall.op = "closed" /\ ~rcall.over /\ skipping = 0 /\ ~Ready
  BY DEF Crashed, Ready
<1>2. \/ gzdirect \/ gzclearerr \/ gzclose_r \/ Grow \/ \E want \in Wants : gzbuffer(want)
  BY <1>1 DEF RNext, gzread, gzgets, gzungetc, gzgetc, Skip, Read, Gets, Unget, gzrewind, gzseek_set, gzseek_cur
<1> QED BY <1>1, <1>2 DEF gzdirect, gzclearerr, gzclose_r, Grow, gzbuffer

(* What no call changes. *)
LEMMA OthersStay ==
  ASSUME RNext
  PROVE  whole' = whole /\ (cleared => cleared') /\ (file' = file \/ file' = whole)
<1>1. ASSUME NEW n \in Lens, gzread(n) \/ gzgets(n) PROVE whole' = whole /\ cleared' = cleared /\ file' = file
  BY <1>1 DEF gzread, gzgets, Begin
<1>2. CASE gzgetc \/ gzungetc
  BY <1>2 DEF gzgetc, gzungetc, Begin
<1>3. CASE Skip
  BY <1>3 DEF Skip, Goes
<1>4. CASE Read
  BY <1>4, SMTT(60) DEF Read, Goes, Copied
<1>5. CASE Gets
  BY <1>5 DEF Gets, Goes, Copied
<1>6. CASE Unget
  BY <1>6 DEF Unget, Goes
<1>7. CASE gzrewind \/ gzdirect \/ gzclose_r \/ Grow
  BY <1>7 DEF gzrewind, gzdirect, gzclose_r, Grow, Quick
<1>11. CASE gzclearerr
  <2>1. whole' = whole /\ file' = file
    BY <1>11 DEF gzclearerr
  <2>2. cleared' = (cleared \/ state.err # "OK")
    BY <1>11 DEF gzclearerr
  <2>3. cleared => cleared'
    BY <2>2, Zenon
  <2> QED BY <2>1, <2>3
<1>8. ASSUME NEW x, SeekTo(x) PROVE whole' = whole /\ cleared' = cleared /\ file' = file
  BY <1>8 DEF SeekTo, Quick
<1>9. ASSUME NEW offset \in Offsets, gzseek_set(offset) \/ gzseek_cur(offset) \/ gzseek_cur(-offset)
      PROVE  whole' = whole /\ cleared' = cleared /\ file' = file
  BY <1>8, <1>9 DEF gzseek_set, gzseek_cur
<1>10. ASSUME NEW want \in Wants, gzbuffer(want) PROVE whole' = whole /\ cleared' = cleared /\ file' = file
  BY <1>10 DEF gzbuffer, Quick
<1> QED BY <1>1, <1>2, <1>3, <1>4, <1>5, <1>6, <1>7, <1>9, <1>10, <1>11 DEF RNext

(* What holds at all times of a file that is read. *)
ReadsInv ==
  /\ mode = "READ" => FilesOK /\ (cleared \/ Reads)
  /\ mode = "WRITE" => state = gz_open(Want) /\ rcall = NoCall /\ skipping = 0 /\ cleared = FALSE

LEMMA TakeInt ==
  ASSUME NEW T, NEW s \in Seq(T), NEW n \in Int
  PROVE  Take(s, n) \in Seq(T) /\ Begins(Take(s, n), s)
<1>1. CASE n >= Len(s)
  BY <1>1, TakeAll DEF Begins
<1>2. CASE n >= 0 /\ n < Len(s)
  <2>1. Take(s, n) \in Seq(T) /\ Len(Take(s, n)) = n /\ \A i \in 1 .. n : Take(s, n)[i] = s[i]
    BY <1>2, TakeAt
  <2> QED BY <1>2, <2>1 DEF Begins
<1>3. CASE n < 0
  <2>1. Lesser(n, Len(s)) = n
    BY <1>3 DEF Lesser
  <2>2. Take(s, n) = <<>>
    BY <1>3, <2>1 DEF Take
  <2> QED BY <2>2 DEF Begins
<1> QED BY <1>1, <1>2, <1>3

LEMMA ReadsInit ==
  ASSUME Init
  PROVE  ReadsInv
<1>1. CASE mode = "READ"
  <2>1. RInit
    BY <1>1 DEF Init
  <2>2. whole \in Seq(Unit) /\ rcall = NoCall /\ skipping = 0
    BY <2>1, GzReadAssumption DEF RInit
  <2>3. PICK n \in {0, Len(whole) - 2, Len(whole)} : file = Take(whole, n)
    BY <2>1 DEF RInit
  <2>4. n \in Int
    BY <2>2
  <2>5. FilesOK
    BY <2>2, <2>3, <2>4, TakeInt DEF FilesOK
  <2>6. PICK want \in Wants : Is(state, gz_open(want))
    BY <2>1 DEF RInit, Is
  <2>7. want \in Nat /\ want > 0
    BY GzReadAssumption
  <2>8. Fresh(state)
    BY <2>6, <2>7, OpenFresh
  <2>9. Stands(state, NoCall, 0, file)
    BY <2>5, <2>8, FreshStands DEF FilesOK
  <2>10. Reads
    BY <2>2, <2>9 DEF Reads
  <2> QED BY <1>1, <2>5, <2>10 DEF ReadsInv
<1>2. CASE mode = "WRITE"
  <2>1. state = gz_open(Want) /\ rcall = NoCall /\ skipping = 0 /\ cleared = FALSE
    BY <1>2 DEF Init
  <2> QED BY <1>2, <2>1 DEF ReadsInv
<1> QED BY <1>1, <1>2 DEF Init

LEMMA ReadsNext ==
  ASSUME ReadsInv, WritesInv, [Next]_vars
  PROVE  ReadsInv'
<1>1. CASE UNCHANGED <<file, mode, state, rcall, skipping, whole, cleared>>
  BY <1>1 DEF ReadsInv, Reads, FilesOK
<1>2. CASE mode = "WRITE" /\ UNCHANGED rvars /\ UNCHANGED mode
  BY <1>2 DEF ReadsInv, rvars
<1>3. CASE mode = "READ" /\ RNext /\ UNCHANGED mode
  <2>1. FilesOK /\ (cleared \/ Reads)
    BY <1>3 DEF ReadsInv
  <2>2. whole' = whole /\ (cleared => cleared') /\ (file' = file \/ file' = whole)
    BY <1>3, OthersStay
  <2>3. FilesOK'
    BY <2>1, <2>2, BeginsSelf DEF FilesOK
  <2>4. cleared' \/ Reads'
    BY <1>3, <2>1, <2>2, StandsNext, FailedNext, CrashedNext DEF Reads
  <2> QED BY <1>3, <2>3, <2>4 DEF ReadsInv
<1>4. CASE Reopen
  <2>1. mode = "WRITE" /\ marred = {} /\ mode' = "READ" /\ whole' = file /\ file' = file /\ state' = state /\ rcall' = rcall
        /\ skipping' = skipping /\ cleared' = cleared
    BY <1>4 DEF Reopen
  <2>2. state = gz_open(Want) /\ rcall = NoCall /\ skipping = 0
    BY <2>1 DEF ReadsInv
  <2>3. file \in Seq(Unit)
    BY <2>1 DEF WritesInv, Wrote, WOK, WritesOK, Holds
  <2>4. FilesOK'
    BY <2>1, <2>3, BeginsSelf DEF FilesOK
  <2>5. Fresh(state)
    <3>1. Is(state, gz_open(Want)) /\ Want \in Nat /\ Want > 0
      BY <2>2, GzWriteAssumption DEF Is
    <3> QED BY <3>1, OpenFresh
  <2>6. Stands(state, NoCall, 0, file)
    BY <2>3, <2>5, FreshStands
  <2>7. Reads'
    BY <2>1, <2>2, <2>6 DEF Reads
  <2> QED BY <2>1, <2>4, <2>7 DEF ReadsInv
<1> QED BY <1>1, <1>2, <1>3, <1>4 DEF Next, Device, vars

LEMMA GotNothing ==
  ASSUME rcall.buf = <<>>
  PROVE  GotContent
<1>1. PICK b : b = <<>> /\ Len(b) = 0 /\ Drop(b, 0) = <<>>
  <2>1. Len(<<>>) = 0 /\ Drop(<<>>, 0) = <<>>
    BY DEF Drop
  <2> QED BY <2>1
<1>2. 0 \in 0 .. Len(rcall.buf) /\ Drop(rcall.buf, 0) = <<>>
  BY <1>1
<1> QED BY <1>2 DEF GotContent, GotUpTo

LEMMA GotInv ==
  ASSUME ReadsInv, WritesInv
  PROVE  GotContent
<1>1. CASE mode = "WRITE"
  <2>1. rcall.buf = <<>>
    BY <1>1, NoCallOK DEF ReadsInv
  <2> QED BY <2>1, GotNothing
<1>2. CASE mode = "READ" /\ (cleared \/ state.err # "OK")
  BY <1>2 DEF GotContent, GotUpTo
<1>3. CASE mode = "READ" /\ ~cleared /\ state.err = "OK"
  <2>1. FilesOK /\ (Stands(state, rcall, skipping, file) \/ Crashed(state, rcall, skipping))
    BY <1>3 DEF ReadsInv, Reads, FailedRead
  <2>2. CASE Crashed(state, rcall, skipping)
    <3>1. rcall.buf = <<>>
      BY <2>2 DEF Crashed
    <3> QED BY <3>1, GotNothing
  <2>3. CASE Stands(state, rcall, skipping, file)
    <3>1. rcall.buf \in Seq(Int) /\ state.out \in Seq(Int) /\ state.pos \in Int /\ ReaderOK(state) /\ ModeOK(state, file)
          /\ SegOf(rcall.buf, state.out, Content(file), state.pos + Len(state.out))
      BY <2>3 DEF Stands, ReaderOK, RCallOK
    <3>2. file \in Seq(Unit)
      BY <2>1 DEF FilesOK
    <3>3. PICK e \in Nat : e = state.pos + Len(state.out)
      BY <3>1, <3>2, EndNat
    <3>4. PICK s \in Seq(Int) : Is(s, rcall.buf \o state.out)
      BY <3>1, ConcatAt DEF Is
    <3>5. Is(e, state.pos + Len(state.out)) /\ Seg(s, Content(file), e)
      BY <3>1, <3>3, <3>4 DEF Is, SegOf
    <3>6. Content(file) \in Seq(Unit)
      BY <3>2, ContentType
    <3>7. Got(rcall.buf, Content(file), state.pos)
      <4>1. PICK b \in Seq(Int) : b = rcall.buf
        BY <3>1
      <4>2. PICK o \in Seq(Int) : o = state.out
        BY <3>1
      <4>3. PICK p \in Int : p = state.pos
        BY <3>1
      <4>4. Is(e, p + Len(o)) /\ Is(s, b \o o)
        BY <3>4, <3>5, <4>1, <4>2, <4>3
      <4>5. Got(b, Content(file), p)
        BY <3>5, <3>6, <4>4, SegGot
      <4> QED BY <4>1, <4>3, <4>5
    <3> QED BY <3>7 DEF Got, GotTo, GotContent, GotUpTo
  <2> QED BY <2>1, <2>2, <2>3
<1> QED BY <1>1, <1>2, <1>3 DEF WritesInv

LEMMA ShortAtEnd ==
  ASSUME ReadsInv, WritesInv
  PROVE  ShortReadAtEnd
<1> SUFFICES ASSUME rcall.op = "read", rcall.over, rcall.left > 0, state.err = "OK", ~cleared
             PROVE  state.pos >= Len(Content(Take(file, state.fpos)))
  BY DEF ShortReadAtEnd
<1>1. mode = "READ"
  BY NoCallOK DEF ReadsInv, WritesInv
<1>2. file \in Seq(Unit) /\ Stands(state, rcall, skipping, file)
  BY <1>1 DEF ReadsInv, Reads, FilesOK, FailedRead, Crashed
<1>3. /\ ReaderOK(state) /\ ModeOK(state, file) /\ state.in = <<>> /\ state.out = <<>>
      /\ state.pos \in Int /\ state.fpos \in Nat /\ state.raw \in Int /\ Len(file) \in Nat
  BY <1>2 DEF Stands, ReaderOK
<1>4. PICK p \in Nat : p = state.fpos /\ p = state.fpos - Len(state.in)
  BY <1>3
<1>5. PICK e \in Int : e = state.pos /\ e = state.pos + Len(state.out)
  BY <1>3
<1>6. ASSUME NEW how, Used1(file, p, how, e), how # "id1" PROVE e >= Len(Content(Take(file, p)))
  <2>1. Content(Take(file, p)) = Known(file, p).data
    BY <1>6 DEF Used1, Known, Content
  <2> QED BY <1>6, <2>1 DEF Used1
<1>7. CASE state.how = "LOOK"
  <2>1. Used1(file, p, "look", e)
    BY <1>3, <1>4, <1>5, <1>7 DEF ModeOK, InMember
  <2> QED BY <1>4, <1>5, <1>6, <2>1
<1>8. CASE state.how = "GZIP"
  <2>1. Used1(file, p, "data", e)
    BY <1>3, <1>4, <1>5, <1>8 DEF ModeOK, InMember
  <2> QED BY <1>4, <1>5, <1>6, <2>1
<1>9. CASE state.how = "COPY"
  <2>1. PICK raw \in Int : raw = state.raw
    BY <1>3
  <2>2. PICK r \in Nat : Copies(file, r, raw, p, e)
    BY <1>3, <1>4, <1>5, <1>9, <2>1 DEF ModeOK, InRaw
  <2>3. RawFrom(file, r) /\ Len(Known(file, r).data) = raw /\ p >= r /\ p - r = e - raw /\ r < Len(file)
    BY <2>2 DEF Copies, RawFrom
  <2>4. PICK m \in Nat : m <= p /\ r <= m /\ m <= Len(file) /\ Take(file, p) = Take(file, m)
    <3>1. CASE p <= Len(file)
      BY <2>3, <3>1
    <3>2. CASE p > Len(file)
      <4>1. Take(file, p) = file /\ Take(file, Len(file)) = file
        BY <1>2, <1>3, <3>2, TakeAll
      <4>2. Len(file) \in Nat /\ Len(file) <= p /\ r <= Len(file)
        BY <1>3, <2>3, <3>2
      <4> QED BY <4>1, <4>2
    <3> QED BY <1>3, <3>1, <3>2
  <2>5. RawHolds(file, r, m, Known(file, r).data, Content(Take(file, m)))
    BY <1>2, <2>3, <2>4, RawContent
  <2>6. Len(Content(Take(file, m))) = raw + (m - r)
    BY <2>3, <2>5 DEF RawHolds
  <2>7. e >= raw + (m - r)
    BY <2>3, <2>4
  <2> QED BY <1>4, <1>5, <2>4, <2>6, <2>7
<1> QED BY <1>3, <1>7, <1>8, <1>9 DEF ReaderOK

(* What is read, whatever the file, the sizes of the buffers and of the reads, the skips, seeks
   and characters pushed back, the failures of read() and the growth of the file: what a caller
   has got is what the file holds up to the position told, until an error is met. *)
THEOREM ReadIsContent == Spec => []GotContent
<1>1. Init => WritesInv /\ ReadsInv
  BY WritesInit, ReadsInit
<1>2. WritesInv /\ ReadsInv /\ [Next]_vars => (WritesInv /\ ReadsInv)'
  BY WritesNext, ReadsNext
<1>3. WritesInv /\ ReadsInv => GotContent
  BY GotInv
<1> QED BY <1>1, <1>2, <1>3, PTL DEF Spec

(* A gzread() that gives less than asked for, and no error, has given everything the file held
   when its end was met (gzread(), gz_avail(), gz_make()), unless gzclearerr() came before. *)
THEOREM ShortReadIsEnd == Spec => []ShortReadAtEnd
<1>1. Init => WritesInv /\ ReadsInv
  BY WritesInit, ReadsInit
<1>2. WritesInv /\ ReadsInv /\ [Next]_vars => (WritesInv /\ ReadsInv)'
  BY WritesNext, ReadsNext
<1>3. WritesInv /\ ReadsInv => ShortReadAtEnd
  BY ShortAtEnd
<1> QED BY <1>1, <1>2, <1>3, PTL DEF Spec
=============================================================================
