-------------------------- MODULE SagePlayerProofs --------------------------
(***************************************************************************)
(* SagePlayer enumerates the hands it may put without missing one, puts    *)
(* only legal hands of its own cards, and a plan it found plays out all of  *)
(* them, for every set of cards and every number of other players.         *)
(***************************************************************************)
EXTENDS SagePlayer, DaifugoRuleProofs

---------------------------------------------------------------------------
(* _genAllCombination, a recursive function *)

(* One round of a recursion that unites the values at the successors. *)
Round(D, A, E, f) == [d \in D |-> A[d] \cup UNION {f[e] : e \in E[d]}]

LEMMA RoundType ==
  ASSUME NEW D, NEW A \in [D -> SUBSET D], NEW E \in [D -> SUBSET D], NEW f \in [D -> SUBSET D]
  PROVE  Round(D, A, E, f) \in [D -> SUBSET D]
BY DEF Round

LEMMA RoundMonotone ==
  ASSUME NEW D, NEW A \in [D -> SUBSET D], NEW E \in [D -> SUBSET D],
         NEW f \in [D -> SUBSET D], NEW k \in [D -> SUBSET D], \A e \in D : f[e] \subseteq k[e]
  PROVE  \A d \in D : Round(D, A, E, f)[d] \subseteq Round(D, A, E, k)[d]
BY DEF Round

(* Such a recursion has a fixed point, the smallest function that is closed under it: a definition  *)
(* by the recursion denotes a function that satisfies it.                                           *)
LEMMA FixedPoint ==
  ASSUME NEW D, NEW A \in [D -> SUBSET D], NEW E \in [D -> SUBSET D]
  PROVE  \E g \in [D -> SUBSET D] : g = Round(D, A, E, g)
<1> DEFINE F(f) == Round(D, A, E, f)
           Closed == {f \in [D -> SUBSET D] : \A d \in D : F(f)[d] \subseteq f[d]}
           g == [d \in D |-> {h \in D : \A f \in Closed : h \in f[d]}]
<1>1. g \in [D -> SUBSET D] /\ F(g) \in [D -> SUBSET D]
  BY RoundType
<1>2. ASSUME NEW f \in Closed PROVE \A d \in D : g[d] \subseteq f[d] /\ F(g)[d] \subseteq F(f)[d]
  <2>1. \A d \in D : g[d] \subseteq f[d]
    OBVIOUS
  <2>2. f \in [D -> SUBSET D]
    OBVIOUS
  <2> HIDE DEF g
  <2> QED BY <1>1, <2>1, <2>2, RoundMonotone
<1>3. ASSUME NEW d \in D PROVE F(g)[d] \subseteq g[d]
  <2> SUFFICES ASSUME NEW h \in F(g)[d] PROVE h \in g[d]
    OBVIOUS
  <2>1. h \in D
    BY <1>1
  <2>2. ASSUME NEW f \in Closed PROVE h \in f[d]
    <3>1. F(f)[d] \subseteq f[d] /\ F(g)[d] \subseteq F(f)[d]
      BY <1>2
    <3> QED BY <3>1
  <2> QED BY <2>1, <2>2
<1>4. \A d \in D : F(F(g))[d] \subseteq F(g)[d]
  <2> HIDE DEF g
  <2> QED BY <1>1, <1>3, RoundMonotone
<1>5. F(g) \in Closed
  BY <1>1, <1>4
<1>6. \A d \in D : g[d] = F(g)[d]
  BY <1>2, <1>3, <1>5
<1> HIDE DEF g
<1>7. g = F(g)
  BY <1>1, <1>6
<1> QED BY <1>1, <1>7

(* The hands with one card more than base that can be put, and those the recursion goes on with. *)
Put(kak, tefda, ba, base) ==
  {h \in SUBSET tefda : (\E c \in tefda \ base : h = base \cup {c}) /\ canPut(rule, kak, h, ba) = OK}

Grown(kak, tefda, ba, base) ==
  {h \in SUBSET tefda : /\ \E c \in tefda \ base : h = base \cup {c}
                        /\ canPut(rule, kak, h, ba) = OK \/ ~(Cardinality(base) >= 2)}

Combines(g, kak, tefda, ba) ==
  \A base \in SUBSET tefda :
    g[base] = Put(kak, tefda, ba, base) \cup UNION {g[h] : h \in Grown(kak, tefda, ba, base)}

(* What the recursion of _genAllCombination says. *)
LEMMA Combinations ==
  ASSUME NEW kak, NEW tefda, NEW ba
  PROVE  \E g : genAllCombination(kak, tefda, ba) = g[{}] /\ Combines(g, kak, tefda, ba)
<1> DEFINE D == SUBSET tefda
           good(h) == canPut(rule, kak, h, ba) = OK
           big(base) == Cardinality(base) >= 2
           Body(g, base) == UNION {LET h == base \cup {c} IN
                               IF canPut(rule, kak, h, ba) = OK THEN {h} \cup g[h]
                               ELSE IF Cardinality(base) >= 2 THEN {} ELSE g[h] : c \in tefda \ base}
           G == CHOOSE g : g = [base \in D |-> Body(g, base)]
           P == [base \in D |-> Put(kak, tefda, ba, base)]
           S == [base \in D |-> Grown(kak, tefda, ba, base)]
<1>1. genAllCombination(kak, tefda, ba) = G[{}]
  BY DEF genAllCombination
<1>2. ASSUME NEW g, NEW base \in D PROVE Body(g, base) = P[base] \cup UNION {g[h] : h \in S[base]}
  <2> DEFINE part(c) == IF good(base \cup {c}) THEN {base \cup {c}} \cup g[base \cup {c}]
                        ELSE IF big(base) THEN {} ELSE g[base \cup {c}]
  <2>1. /\ \A h \in P[base] : \E c \in tefda \ base : h = base \cup {c} /\ good(base \cup {c})
        /\ \A c \in tefda \ base : good(base \cup {c}) => base \cup {c} \in P[base]
    BY DEF Put
  <2>0. /\ \A h \in S[base] : \E c \in tefda \ base : h = base \cup {c} /\ (good(base \cup {c}) \/ ~big(base))
        /\ \A c \in tefda \ base : good(base \cup {c}) \/ ~big(base) => base \cup {c} \in S[base]
    BY DEF Grown
  <2>2. Body(g, base) = UNION {part(c) : c \in tefda \ base}
    OBVIOUS
  <2>3. \A c, x : x \in part(c) <=>
          \/ x = base \cup {c} /\ good(base \cup {c})
          \/ x \in g[base \cup {c}] /\ (good(base \cup {c}) \/ ~big(base))
    <3> HIDE DEF good, big
    <3> QED OBVIOUS
  <2> HIDE DEF good, big, P, S, Body, part
  <2>4. ASSUME NEW x \in Body(g, base) PROVE x \in P[base] \cup UNION {g[h] : h \in S[base]}
    <3>1. PICK c \in tefda \ base : x \in part(c)
      BY <2>2
    <3>2. CASE x = base \cup {c} /\ good(base \cup {c})
      BY <2>1, <3>2
    <3>3. CASE x \in g[base \cup {c}] /\ (good(base \cup {c}) \/ ~big(base))
      <4>1. base \cup {c} \in S[base]
        BY <2>0, <3>3
      <4> QED BY <3>3, <4>1
    <3> QED BY <2>3, <3>1, <3>2, <3>3
  <2>5. ASSUME NEW x \in P[base] PROVE x \in Body(g, base)
    <3>1. PICK c \in tefda \ base : x = base \cup {c} /\ good(base \cup {c})
      BY <2>1
    <3>2. x \in part(c)
      BY <2>3, <3>1
    <3> QED BY <2>2, <3>2
  <2>6. ASSUME NEW h \in S[base], NEW x \in g[h] PROVE x \in Body(g, base)
    <3>1. PICK c \in tefda \ base : h = base \cup {c} /\ (good(base \cup {c}) \/ ~big(base))
      BY <2>0
    <3>2. x \in part(c)
      BY <2>3, <3>1
    <3> QED BY <2>2, <3>2
  <2> QED BY <2>4, <2>5, <2>6
<1>3. P \in [D -> SUBSET D] /\ S \in [D -> SUBSET D]
  BY DEF Put, Grown
<1>4. \A base \in D : P[base] = Put(kak, tefda, ba, base) /\ S[base] = Grown(kak, tefda, ba, base)
  OBVIOUS
<1> HIDE DEF P, S, Body, D
<1>5. PICK f \in [D -> SUBSET D] : f = Round(D, P, S, f)
  BY <1>3, FixedPoint
<1>6. f = [base \in D |-> Body(f, base)]
  <2>1. ASSUME NEW base \in D PROVE f[base] = Body(f, base)
    <3>1. f[base] = P[base] \cup UNION {f[h] : h \in S[base]}
      BY <1>5 DEF Round
    <3> QED BY <1>2, <3>1
  <2> QED BY <2>1
<1>7. G = [base \in D |-> Body(G, base)]
  BY <1>6
<1> HIDE DEF G
<1>8. \A base \in D : G[base] = Body(G, base)
  BY <1>7
<1>9. \A base \in D : G[base] = P[base] \cup UNION {G[h] : h \in S[base]}
  BY <1>2, <1>8
<1>10. \A base \in D : G[base] = Put(kak, tefda, ba, base) \cup UNION {G[h] : h \in Grown(kak, tefda, ba, base)}
  BY <1>4, <1>9
<1> QED BY <1>1, <1>10 DEF D, Combines

(* No non-empty collection of subsets of a finite set lets each of them grow by an element. *)
Grows(B, T) == \A b \in B : b \in SUBSET T /\ \E c \in T \ b : b \cup {c} \in B

LEMMA NoneGrows ==
  ASSUME NEW T, IsFiniteSet(T), NEW B, Grows(B, T)
  PROVE  B = {}
<1> SUFFICES ASSUME B # {} PROVE FALSE
  OBVIOUS
<1> DEFINE C == {T \ b : b \in B}
           R == StrictSubsetOrdering(T)
<1>1. C \subseteq SUBSET T /\ C # {}
  <2>1. PICK b \in B : TRUE
    OBVIOUS
  <2>2. T \ b \in C
    OBVIOUS
  <2>3. C \subseteq SUBSET T
    OBVIOUS
  <2> QED BY <2>2, <2>3
<1>2. IsWellFoundedOn(R, SUBSET T)
  BY FS_StrictSubsetOrderingWellFounded, FS_FiniteSubsetsOfFinite
<1> HIDE DEF R
<1>3. PICK x \in C : \A y \in C : ~(<<y, x>> \in R)
  <2> HIDE DEF C
  <2> QED BY <1>1, <1>2, WFMin, Zenon
<1>4. PICK b \in B : x = T \ b
  OBVIOUS
<1>5. ASSUME NEW c \in T \ b, b \cup {c} \in B PROVE FALSE
  <2> DEFINE y == T \ (b \cup {c})
  <2>1. y \in C /\ y \in SUBSET T /\ x \in SUBSET T /\ y \subseteq x /\ y # x
    BY <1>4, <1>5
  <2> HIDE DEF y
  <2>2. <<y, x>> \in R
    BY <2>1 DEF R, StrictSubsetOrdering
  <2> QED BY <1>3, <2>1, <2>2
<1>6. PICK c \in T \ b : b \cup {c} \in B
  BY Zenon DEF Grows
<1> QED BY <1>5, <1>6

(* Every hand that is enumerated can be put. *)
LEMMA OnlyLegal ==
  ASSUME NEW kak, NEW tefda \in CardSets, NEW ba
  PROVE  \A h \in genAllCombination(kak, tefda, ba) :
           h \subseteq tefda /\ h # {} /\ canPut(rule, kak, h, ba) = OK
<1>1. PICK g : genAllCombination(kak, tefda, ba) = g[{}] /\ Combines(g, kak, tefda, ba)
  BY Combinations
<1> DEFINE Legal(h) == h \subseteq tefda /\ h # {} /\ canPut(rule, kak, h, ba) = OK
           B == {base \in SUBSET tefda : \E h \in g[base] : ~Legal(h)}
<1>2. ASSUME NEW b \in B PROVE \E c \in tefda \ b : b \cup {c} \in B
  <2>1. PICK h \in g[b] : ~Legal(h)
    OBVIOUS
  <2>2. b \in SUBSET tefda
    OBVIOUS
  <2>3. h \notin Put(kak, tefda, ba, b)
    BY <2>1 DEF Put
  <2>4. PICK k \in Grown(kak, tefda, ba, b) : h \in g[k]
    BY <1>1, <2>2, <2>3 DEF Combines
  <2>5. PICK c \in tefda \ b : k = b \cup {c}
    BY DEF Grown
  <2> QED BY <2>1, <2>2, <2>4, <2>5, ZenonT(60)
<1>3. IsFiniteSet(tefda)
  BY CardSetFinite
<1>4. B = {}
  <2>1. IsFiniteSet(tefda)
    BY <1>3
  <2>2. Grows(B, tefda)
    BY <1>2 DEF Grows
  <2> HIDE DEF B
  <2> QED BY <2>1, <2>2, NoneGrows, Zenon
<1>5. {} \in SUBSET tefda
  OBVIOUS
<1> QED BY <1>1, <1>4, <1>5

(* When a hand leads, or answers a hand. *)
LEMMA PutOnField ==
  ASSUME NEW kak \in BOOLEAN, NEW h \in CardSets, NEW ba \in CardSets
  PROVE  /\ canPut(rule, kak, h, ba) = canPutA(kak, h, ba)
         /\ canPut(rule, kak, {}, ba) = OK
         /\ ba = {} /\ h # {} => (canPut(rule, kak, h, ba) = OK <=> HasFirstCard(h))
         /\ ba # {} /\ h # {} /\ canPut(rule, kak, h, ba) = OK => Cardinality(h) = Cardinality(ba)
<1>1. canPut(rule, kak, h, ba) = canPutA(kak, h, ba)
  BY RuleBIsRuleA DEF canPut
<1>2. canPut(rule, kak, {}, ba) = OK
  BY DEF canPut, canPutA, canPutB
<1>3. ba = {} /\ h # {} => (canPutA(kak, h, ba) = OK <=> HasFirstCard(h))
  BY DEF canPutA, OK, ERR_DIFFERENT_NUM
<1>4. ba # {} /\ h # {} /\ canPutA(kak, h, ba) = OK => Cardinality(h) = Cardinality(ba)
  BY PutOnHand
<1> QED BY <1>1, <1>2, <1>3, <1>4

(* Every hand that can be put on up to three cards is enumerated. *)
LEMMA NoneMissed ==
  ASSUME NEW kak \in BOOLEAN, NEW tefda \in CardSets, NEW ba \in CardSets, Cardinality(ba) <= 3,
         NEW h \in SUBSET tefda, h # {}, canPut(rule, kak, h, ba) = OK
  PROVE  h \in genAllCombination(kak, tefda, ba)
<1>1. PICK g : genAllCombination(kak, tefda, ba) = g[{}] /\ Combines(g, kak, tefda, ba)
  BY Combinations, Zenon
<1> DEFINE B == {base \in SUBSET h : base # h /\ h \notin g[base]}
<1>2. h \in CardSets /\ IsFiniteSet(h)
  <2>1. h \in CardSets
    BY DEF CardSets
  <2> QED BY <2>1, CardSetFinite
<1>3. ASSUME NEW b \in B PROVE \E c \in h \ b : b \cup {c} \in B
  <2>1. b \in SUBSET h /\ b \in SUBSET tefda /\ b # h /\ h \notin g[b]
    OBVIOUS
  <2>2. PICK c \in h \ b : TRUE
    BY <2>1
  <2> DEFINE k == b \cup {c}
  <2>3. k \in SUBSET h /\ k \in SUBSET tefda /\ k # {} /\ c \in tefda \ b
    BY <2>1
  <2>4. k # h
    <3> SUFFICES ASSUME k = h PROVE FALSE
      OBVIOUS
    <3>1. h \in Put(kak, tefda, ba, b)
      BY <2>3 DEF Put
    <3> QED BY <1>1, <2>1, <3>1 DEF Combines
  <2>5. k \in Grown(kak, tefda, ba, b)
    <3>1. CASE ba = {}
      <4>1. HasFirstCard(h)
        BY <1>2, <3>1, PutOnField
      <4>2. HasFirstCard(k) /\ k \in CardSets
        BY <1>2, <2>3, <4>1 DEF HasFirstCard, WithoutJoker, CardSets
      <4>3. canPut(rule, kak, k, ba) = OK
        <5> HIDE DEF k
        <5> QED BY <2>3, <3>1, <4>2, PutOnField
      <4> QED BY <2>3, <4>3 DEF Grown
    <3>2. CASE ba # {}
      <4>1. Cardinality(h) <= 3
        BY <1>2, <3>2, PutOnField
      <4>2. /\ IsFiniteSet(b) /\ IsFiniteSet(k)
            /\ Cardinality(k) = Cardinality(b) + 1 /\ Cardinality(b) \in Nat
        BY <1>2, <2>1, <2>2, FS_Subset, FS_AddElement, FS_CardinalityType
      <4>3. Cardinality(k) < Cardinality(h)
        <5> HIDE DEF k
        <5>1. Cardinality(k) <= Cardinality(h) /\ (Cardinality(k) = Cardinality(h) => k = h)
          BY <1>2, <2>3, FS_Subset
        <5>2. Cardinality(k) \in Nat /\ Cardinality(h) \in Nat
          BY <1>2, <4>2, FS_CardinalityType
        <5> QED BY <2>4, <5>1, <5>2
      <4>4. ~(Cardinality(b) >= 2)
        <5>1. Cardinality(h) \in Nat
          BY <1>2, FS_CardinalityType
        <5> HIDE DEF k
        <5> QED BY <4>1, <4>2, <4>3, <5>1
      <4> QED BY <2>3, <4>4 DEF Grown
    <3> QED BY <3>1, <3>2
  <2>6. h \notin g[k]
    <3> HIDE DEF k
    <3> QED BY <1>1, <2>1, <2>5 DEF Combines
  <2> QED BY <2>2, <2>3, <2>4, <2>6
<1>4. B = {}
  <2>1. IsFiniteSet(h)
    BY <1>2
  <2>2. Grows(B, h)
    BY <1>3 DEF Grows
  <2> HIDE DEF B
  <2> QED BY <2>1, <2>2, NoneGrows, Zenon
<1>5. {} \in SUBSET h /\ {} # h
  OBVIOUS
<1> QED BY <1>1, <1>4, <1>5

---------------------------------------------------------------------------
(* The inductive invariant *)

(* What a reply may be: own cards the rules allow, and no pass of a player that leads. *)
MayPut(h) ==
  /\ h \subseteq deck
  /\ canPut(rule, kakumei, h, ba_last) = OK
  /\ ba_last = {} => h # {}

(* The hands along a path do not overlap, the first may be put now, and only it can be a pass. *)
PathOK(p) ==
  /\ p \in Seq(SUBSET deck)
  /\ \A i, j \in DOMAIN p : i # j => p[i] \cap p[j] = {}
  /\ p # <<>> => MayPut(p[1])
  /\ \A i \in DOMAIN p : i > 1 => p[i] # {}

NodeOK(nd) ==
  /\ nd.kak \in BOOLEAN
  /\ PathOK(nd.path)
  /\ nd.tefda = deck \ UNION Range(nd.path)
  /\ isRoot(nd) => nd.kak = kakumei

(* The context a player is asked with, the nodes of one level, and the children of the root that have points. *)
SearchOK ==
  /\ pc # "search" => nodes = {} /\ rated = {}
  /\ pc \in {"think", "search"} => deck # {}
  /\ \A nd \in nodes : NodeOK(nd)
  /\ \A nd, m \in nodes : isRoot(nd) => isRoot(m)
  /\ \A h \in rated : MayPut(h)

ContextTypes ==
  /\ deck \in SUBSET Universe /\ ba_last \in SUBSET Universe /\ kakumei \in BOOLEAN
  /\ saved \in Seq((SUBSET Universe) \ {{}})

SageInv == ContextTypes /\ SearchOK /\ PutIsLegal /\ PlanPlaysOut

LEMMA HandsAreCards ==
  ASSUME ContextTypes
  PROVE  deck \in CardSets /\ ba_last \in CardSets /\ \A h \in SUBSET deck : h \in CardSets
BY DealsAssumption DEF ContextTypes, CardSets

(* A single card can always lead. *)
LEMMA SingleLeads ==
  ASSUME NEW kak \in BOOLEAN, NEW tefda \in CardSets, genAllCombination(kak, tefda, {}) = {}
  PROVE  tefda = {}
<1> SUFFICES ASSUME NEW c \in tefda PROVE FALSE
  OBVIOUS
<1>1. c \in CardIds /\ {} \in CardSets
  BY DEF CardSets
<1>2. {c} \in CardSets /\ {c} # {} /\ HasFirstCard({c}) /\ {c} \in SUBSET tefda
  BY <1>1, SingleCard
<1>3. canPut(rule, kak, {c}, {}) = OK
  BY <1>1, <1>2, PutOnField
<1>4. Cardinality({}) <= 3
  BY FS_EmptySet
<1> QED BY <1>1, <1>2, <1>3, <1>4, NoneMissed

(* The hands of a node are its own cards, and those of the root may be put. *)
LEMMA HandsOK ==
  ASSUME ContextTypes, SearchOK, NEW nd \in nodes
  PROVE  /\ nd.tefda \in SUBSET deck /\ nd.tefda \in CardSets /\ nd.kak \in BOOLEAN
         /\ \A h \in Hands(nd) : /\ h \subseteq nd.tefda /\ h # {}
                                 /\ isRoot(nd) => MayPut(h)
         /\ isRoot(nd) => nd.tefda = deck /\ ba_cards = ba_last
         /\ ~isRoot(nd) => ba_cards = {}
<1>1. NodeOK(nd)
  BY DEF SearchOK
<1>2. nd.tefda \in SUBSET deck /\ nd.kak \in BOOLEAN
  BY <1>1 DEF NodeOK
<1>3. nd.tefda \in CardSets
  BY <1>2, HandsAreCards
<1>4. ASSUME isRoot(nd) PROVE nd.tefda = deck /\ ba_cards = ba_last /\ nd.kak = kakumei
  <2>1. nd.path = <<>>
    BY <1>4 DEF isRoot
  <2>2. Range(nd.path) = {}
    BY <2>1 DEF Range
  <2> QED BY <1>1, <1>4, <2>2 DEF NodeOK, ba_cards, AtRoot
<1>5. ASSUME ~isRoot(nd) PROVE ba_cards = {}
  BY <1>5 DEF ba_cards, AtRoot, SearchOK
<1>6. ASSUME NEW h \in Hands(nd)
      PROVE  h \subseteq nd.tefda /\ h # {} /\ canPut(rule, nd.kak, h, ba_cards) = OK
  BY <1>3, OnlyLegal DEF Hands
<1>7. ASSUME NEW h \in Hands(nd), isRoot(nd) PROVE MayPut(h)
  BY <1>4, <1>6, <1>7 DEF MayPut
<1> QED BY <1>2, <1>3, <1>4, <1>5, <1>6, <1>7

LEMMA UnionAdd ==
  ASSUME NEW S, NEW h
  PROVE  UNION (S \cup {h}) = (UNION S) \cup h
<1>1. ASSUME NEW x \in UNION (S \cup {h}) PROVE x \in (UNION S) \cup h
  OBVIOUS
<1>2. ASSUME NEW x \in (UNION S) \cup h PROVE x \in UNION (S \cup {h})
  <2>1. CASE x \in h
    <3>1. h \in S \cup {h}
      OBVIOUS
    <3> QED BY <2>1, <3>1, Zenon
  <2>2. CASE x \in UNION S
    BY <2>2
  <2> QED BY <2>1, <2>2
<1> QED BY <1>1, <1>2

(* A path that goes on with cards that are left. *)
LEMMA LongerPath ==
  ASSUME NEW p, PathOK(p), NEW h, h \subseteq deck \ UNION Range(p),
         p = <<>> => MayPut(h), p # <<>> => h # {}
  PROVE  /\ PathOK(Append(p, h)) /\ Append(p, h) # <<>>
         /\ UNION Range(Append(p, h)) = (UNION Range(p)) \cup h
<1> DEFINE q == Append(p, h)
           n == Len(p)
<1>1. p \in Seq(SUBSET deck) /\ h \in SUBSET deck
  BY DEF PathOK
<1>2. /\ n \in Nat /\ DOMAIN p = 1 .. n /\ q \in Seq(SUBSET deck) /\ DOMAIN q = 1 .. n + 1
      /\ q[n + 1] = h /\ \A i \in 1 .. n : q[i] = p[i]
      /\ p = <<>> <=> n = 0
  BY <1>1
<1>3. q # <<>>
  BY <1>1, SMTT(60)
<1> HIDE DEF q, n
<1>4. \A i \in 1 .. n : p[i] \cap h = {}
  BY <1>2 DEF Range
<1>5. ASSUME NEW i \in DOMAIN q, NEW j \in DOMAIN q, i # j PROVE q[i] \cap q[j] = {}
  <2>1. CASE i \in 1 .. n /\ j \in 1 .. n
    BY <1>2, <1>5, <2>1 DEF PathOK
  <2>2. CASE i = n + 1 /\ j \in 1 .. n
    BY <1>2, <1>4, <2>2
  <2>3. CASE j = n + 1 /\ i \in 1 .. n
    BY <1>2, <1>4, <2>3
  <2> QED BY <1>2, <1>5, <2>1, <2>2, <2>3
<1>6. MayPut(q[1])
  <2>1. CASE n = 0
    BY <1>2, <2>1
  <2>2. CASE n # 0
    BY <1>2, <2>2 DEF PathOK
  <2> QED BY <2>1, <2>2
<1>7. ASSUME NEW i \in DOMAIN q, i > 1 PROVE q[i] # {}
  <2>1. CASE i \in 1 .. n
    BY <1>2, <1>7, <2>1 DEF PathOK
  <2>2. CASE i = n + 1
    BY <1>2, <1>7, <2>2
  <2> QED BY <1>2, <2>1, <2>2
<1>8. PathOK(q)
  BY <1>2, <1>5, <1>6, <1>7 DEF PathOK
<1>9. Range(q) = Range(p) \cup {h}
  <2>1. ASSUME NEW x \in Range(q) PROVE x \in Range(p) \cup {h}
    BY <1>2 DEF Range
  <2>2. ASSUME NEW x \in Range(p) PROVE x \in Range(q)
    BY <1>2 DEF Range
  <2>3. h \in Range(q)
    BY <1>2 DEF Range
  <2> QED BY <2>1, <2>2, <2>3
<1>10. UNION Range(q) = (UNION Range(p)) \cup h
  BY <1>9, UnionAdd
<1> QED BY <1>3, <1>8, <1>10 DEF q

(* A child of a node, by a hand of its cards or by a pass of the root, holds what is left. *)
LEMMA ChildOK ==
  ASSUME ContextTypes, NEW nd, NodeOK(nd), NEW h, h \subseteq nd.tefda,
         isRoot(nd) => MayPut(h), ~isRoot(nd) => h # {},
         NEW eh, eh.hand = h, eh.tefda = nd.tefda \ h
  PROVE  LET ch == createChild(nd, eh) IN
         NodeOK(ch) /\ ~isRoot(ch) /\ ch.tefda = nd.tefda \ h
<1> DEFINE ch == createChild(nd, eh)
           p == nd.path
<1>1. PathOK(p) /\ nd.tefda = deck \ UNION Range(p) /\ nd.kak \in BOOLEAN
  BY DEF NodeOK
<1>2. HandOf(nd) \cap nd.tefda = {}
  <2>1. CASE isRoot(nd)
    BY <2>1 DEF HandOf
  <2>2. CASE ~isRoot(nd)
    <3>1. p \in Seq(SUBSET deck) /\ p # <<>>
      BY <1>1, <2>2 DEF PathOK, isRoot
    <3>2. Len(p) \in DOMAIN p
      BY <3>1
    <3>3. HandOf(nd) \in Range(p)
      BY <2>2, <3>2 DEF HandOf, Last, Range
    <3> QED BY <1>1, <3>3
  <2> QED BY <2>1, <2>2
<1>3. /\ ch.path = Append(p, h) /\ ch.tefda = (nd.tefda \ h) \ HandOf(nd)
      /\ ch.kak = IF Cardinality(h) >= 4 THEN ~nd.kak ELSE nd.kak
  BY DEF createChild
<1> HIDE DEF ch
<1>4. ch.tefda = nd.tefda \ h
  BY <1>2, <1>3
<1>5. /\ PathOK(Append(p, h)) /\ Append(p, h) # <<>>
      /\ UNION Range(Append(p, h)) = (UNION Range(p)) \cup h
  BY <1>1, LongerPath DEF isRoot
<1>6. ch.kak \in BOOLEAN
  BY <1>1, <1>3
<1>7. ~isRoot(ch)
  BY <1>3, <1>5 DEF isRoot
<1>8. ch.tefda = deck \ UNION Range(ch.path)
  <2> DEFINE U == UNION Range(p)
  <2>1. ch.tefda = (deck \ U) \ h
    BY <1>1, <1>4
  <2>2. UNION Range(ch.path) = U \cup h
    BY <1>3, <1>5
  <2> HIDE DEF U
  <2> QED BY <2>1, <2>2
<1>9. PathOK(ch.path)
  BY <1>3, <1>5
<1> QED BY <1>4, <1>6, <1>7, <1>8, <1>9 DEF ch, NodeOK

LEMMA EvalHandIs ==
  ASSUME NEW nd, NEW h
  PROVE  EvalHand(nd, h).hand = h /\ EvalHand(nd, h).tefda = nd.tefda \ h
BY DEF EvalHand

LEMMA PassHandIs ==
  ASSUME NEW nd
  PROVE  PassHand(nd).hand = {} /\ PassHand(nd).tefda = nd.tefda \ {}
BY DEF PassHand

(* The next level: children that hold the rest of the cards. *)
LEMMA NextLevelOK ==
  ASSUME ContextTypes, SearchOK, NEW ch \in NextLevel
  PROVE  NodeOK(ch) /\ ~isRoot(ch)
<1>1. PICK nd \in nodes : ch \in NextNodes(nd)
  BY DEF NextLevel
<1>2. NodeOK(nd)
  BY DEF SearchOK
<1>3. \/ \E h \in Hands(nd) : ch = createChild(nd, EvalHand(nd, h))
      \/ isRoot(nd) /\ ba_cards # {} /\ ch = createChild(nd, PassHand(nd))
  BY <1>1 DEF NextNodes, Followers, betterHands, poorHands, Listed
<1>4. ASSUME NEW h \in Hands(nd), ch = createChild(nd, EvalHand(nd, h))
      PROVE  NodeOK(ch) /\ ~isRoot(ch)
  <2>1. h \subseteq nd.tefda /\ h # {} /\ (isRoot(nd) => MayPut(h))
    BY HandsOK
  <2>2. NodeOK(createChild(nd, EvalHand(nd, h))) /\ ~isRoot(createChild(nd, EvalHand(nd, h)))
    BY <1>2, <2>1, EvalHandIs, ChildOK, SMTT(60)
  <2> QED BY <1>4, <2>2
<1>5. ASSUME isRoot(nd), ba_cards # {}, ch = createChild(nd, PassHand(nd))
      PROVE  NodeOK(ch) /\ ~isRoot(ch)
  <2>1. ba_last # {}
    BY <1>5, HandsOK
  <2>2. MayPut({})
    BY <2>1, HandsAreCards, PutOnField DEF MayPut, ContextTypes
  <2>3. NodeOK(createChild(nd, PassHand(nd))) /\ ~isRoot(createChild(nd, PassHand(nd)))
    BY <1>2, <1>5, <2>2, PassHandIs, ChildOK
  <2> QED BY <1>5, <2>3
<1> QED BY <1>3, <1>4, <1>5

(* The first hand of a node below the root. *)
LEMMA HeirOK ==
  ASSUME NEW nd, NodeOK(nd), ~isRoot(nd)
  PROVE  HeirHand(nd) = nd.path[1] /\ MayPut(HeirHand(nd))
<1>1. nd.path \in Seq(SUBSET deck) /\ nd.path # <<>> /\ MayPut(nd.path[1])
  BY DEF NodeOK, PathOK, isRoot
<1>2. Head(nd.path) = nd.path[1]
  BY <1>1
<1> QED BY <1>1, <1>2 DEF HeirHand

LEMMA CandidatesOK ==
  ASSUME SearchOK, NEW h \in Candidates
  PROVE  MayPut(h)
<1>1. CASE rated # {}
  BY <1>1 DEF Candidates, SearchOK
<1>2. CASE rated = {}
  <2>1. PICK nd \in nodes : ~isRoot(nd) /\ h = HeirHand(nd)
    BY <1>2 DEF Candidates
  <2> QED BY <2>1, HeirOK DEF SearchOK
<1> QED BY <1>1, <1>2

(* What a level returns: the root that can only pass, or a node that has put all the cards. *)
LEMMA ResultOK ==
  ASSUME ContextTypes, SearchOK, pc = "search", NEW nd \in nodes, NEW result \in Results(nd)
  PROVE  \/ isRoot(result) /\ ba_last # {}
         \/ ~isRoot(result) /\ NodeOK(result) /\ UNION Range(result.path) = deck
<1>1. NodeOK(nd)
  BY DEF SearchOK
<1>2. CASE Hands(nd) = {}
  <2>1. result = nd
    BY <1>2 DEF Results
  <2>2. genAllCombination(nd.kak, nd.tefda, ba_cards) = {}
    BY <1>2 DEF Hands
  <2>3. ba_cards = {} => nd.tefda = {}
    BY <2>2, HandsOK, SingleLeads
  <2>4. CASE isRoot(nd)
    <3>1. deck # {} /\ nd.tefda = deck /\ ba_cards = ba_last
      BY <2>4, HandsOK DEF SearchOK
    <3> QED BY <2>1, <2>3, <2>4, <3>1
  <2>5. CASE ~isRoot(nd)
    <3>1. nd.tefda = {}
      BY <2>3, <2>5, HandsOK
    <3>2. UNION Range(nd.path) \subseteq deck
      BY <1>1 DEF NodeOK, PathOK, Range
    <3>3. UNION Range(nd.path) = deck
      BY <1>1, <3>1, <3>2 DEF NodeOK
    <3> QED BY <1>1, <2>1, <2>5, <3>3
  <2> QED BY <2>4, <2>5
<1>3. CASE Hands(nd) # {}
  <2>1. PICK h \in Hands(nd) : h = nd.tefda /\ result = createChild(nd, EvalHand(nd, h))
    BY <1>3 DEF Results, Winners, Finishing, poorHands, Listed
  <2>2. h \subseteq nd.tefda /\ h # {} /\ (isRoot(nd) => MayPut(h))
    BY HandsOK
  <2> DEFINE ch == createChild(nd, EvalHand(nd, h))
  <2>3. NodeOK(ch) /\ ~isRoot(ch) /\ ch.tefda = nd.tefda \ h
    BY <1>1, <2>2, EvalHandIs, ChildOK
  <2> HIDE DEF ch
  <2>4. UNION Range(ch.path) \subseteq deck
    BY <2>3 DEF NodeOK, PathOK, Range
  <2>5. UNION Range(ch.path) = deck
    BY <2>1, <2>3, <2>4 DEF NodeOK
  <2> QED BY <2>1, <2>3, <2>5 DEF ch
<1> QED BY <1>2, <1>3

---------------------------------------------------------------------------
(* The plan *)

(* Sequences are equal when their elements are, and are over what their elements are in. *)
LEMMA SeqEq ==
  ASSUME NEW T, NEW u \in Seq(T), NEW w \in Seq(T), Len(u) = Len(w), \A i \in 1 .. Len(w) : u[i] = w[i]
  PROVE  u = w
OBVIOUS

LEMMA SeqOver ==
  ASSUME NEW T, NEW N, NEW u \in Seq(T), \A i \in 1 .. Len(u) : u[i] \in N
  PROVE  u \in Seq(N)
OBVIOUS

LEMMA ReverseIs ==
  ASSUME NEW T, NEW p \in Seq(T)
  PROVE  /\ Reverse(p) \in Seq(T) /\ Len(Reverse(p)) = Len(p) /\ DOMAIN Reverse(p) = 1 .. Len(p)
         /\ \A i \in 1 .. Len(p) : Reverse(p)[i] = p[(Len(p) - i) + 1]
<1> DEFINE n == Len(p)
           q == [i \in 1 .. n |-> p[(n - i) + 1]]
<1>1. n \in Nat /\ \A i \in 1 .. n : p[i] \in T
  OBVIOUS
<1> HIDE DEF n
<1>2. q \in [1 .. n -> T]
  <2>1. \A i \in 1 .. n : (n - i) + 1 \in 1 .. n
    BY <1>1
  <2> QED BY <1>1, <2>1
<1>3. q \in Seq(T) /\ Len(q) = n /\ DOMAIN q = 1 .. n /\ \A i \in 1 .. n : q[i] = p[(n - i) + 1]
  <2>1. DOMAIN q = 1 .. n /\ \A i \in 1 .. n : q[i] = p[(n - i) + 1]
    OBVIOUS
  <2> HIDE DEF q
  <2> QED BY <1>1, <1>2, <2>1
<1> QED BY <1>3 DEF Reverse, n

LEMMA FrontIs ==
  ASSUME NEW T, NEW q \in Seq(T), q # <<>>
  PROVE  /\ Front(q) \in Seq(T) /\ Len(Front(q)) = Len(q) - 1
         /\ \A i \in 1 .. Len(q) - 1 : Front(q)[i] = q[i]
         /\ Append(Front(q), q[Len(q)]) = q
<1> DEFINE f == SubSeq(q, 1, Len(q) - 1)
<1>1. Len(q) \in Nat /\ Len(q) >= 1 /\ q[Len(q)] \in T
  OBVIOUS
<1>2. f \in Seq(T) /\ Len(f) = Len(q) - 1 /\ \A i \in 1 .. Len(q) - 1 : f[i] = q[i]
  <2> DEFINE m == Len(q) - 1
  <2>1. m \in Nat /\ m <= Len(q)
    BY <1>1
  <2> HIDE DEF m
  <2>2. SubSeq(q, 1, m) \in Seq(T) /\ Len(SubSeq(q, 1, m)) = m /\ \A i \in 1 .. m : SubSeq(q, 1, m)[i] = q[i]
    BY <2>1
  <2> QED BY <2>2 DEF m
<1> HIDE DEF f
<1>3. Append(f, q[Len(q)]) = q
  <2> DEFINE a == Append(f, q[Len(q)])
  <2>1. /\ a \in Seq(T) /\ Len(a) = Len(q)
        /\ \A i \in 1 .. Len(q) : a[i] = q[i]
    BY <1>1, <1>2
  <2> HIDE DEF a
  <2>2. a \in Seq(T)
    BY <2>1
  <2>3. Len(a) = Len(q)
    BY <2>1
  <2>4. a = q
    BY <2>1, <2>2, <2>3, SeqEq
  <2> QED BY <2>4 DEF a
<1> QED BY <1>2, <1>3 DEF f, Front

(* A plan of the hands on a path: the next hand last, every card of the path once. *)
LEMMA PlanOf ==
  ASSUME NEW p, PathOK(p), p # <<>>, p[1] # {}
  PROVE  /\ Append(Front(Reverse(p)), p[1]) = Reverse(p)
         /\ UNION Range(Reverse(p)) = UNION Range(p)
         /\ \A i, j \in DOMAIN Reverse(p) : i # j => Reverse(p)[i] \cap Reverse(p)[j] = {}
<1> DEFINE n == Len(p)
           r == Reverse(p)
<1>1. p \in Seq(SUBSET deck)
  BY DEF PathOK
<1>2. /\ r \in Seq(SUBSET deck) /\ Len(r) = n /\ DOMAIN r = 1 .. n
      /\ \A i \in 1 .. n : r[i] = p[(n - i) + 1]
  BY <1>1, ReverseIs
<1>3. n \in Nat /\ n >= 1 /\ DOMAIN p = 1 .. n
  BY <1>1
<1> HIDE DEF n, r
<1>4. \A i \in 1 .. n : (n - i) + 1 \in 1 .. n
  BY <1>3
<1>5. Append(Front(r), p[1]) = r
  <2>1. r # <<>>
    BY <1>2, <1>3
  <2>2. r[n] = p[1]
    <3>1. n \in 1 .. n /\ (n - n) + 1 = 1
      BY <1>3
    <3> QED BY <1>2, <3>1
  <2> QED BY <1>2, <2>1, <2>2, FrontIs
<1>6. Range(r) = Range(p)
  <2>1. ASSUME NEW i \in 1 .. n PROVE r[i] \in Range(p)
    BY <1>2, <1>3, <1>4 DEF Range
  <2>2. ASSUME NEW i \in 1 .. n PROVE p[i] \in Range(r)
    <3>1. (n - i) + 1 \in 1 .. n /\ (n - ((n - i) + 1)) + 1 = i
      BY <1>3
    <3>2. r[(n - i) + 1] = p[i]
      BY <1>2, <3>1
    <3> QED BY <1>2, <3>1, <3>2 DEF Range
  <2>3. ASSUME NEW x \in Range(r) PROVE x \in Range(p)
    BY <1>2, <2>1 DEF Range
  <2>4. ASSUME NEW x \in Range(p) PROVE x \in Range(r)
    BY <1>3, <2>2 DEF Range
  <2> QED BY <2>3, <2>4
<1>7. ASSUME NEW i \in 1 .. n, NEW j \in 1 .. n, i # j PROVE r[i] \cap r[j] = {}
  <2>1. (n - i) + 1 \in DOMAIN p /\ (n - j) + 1 \in DOMAIN p /\ (n - i) + 1 # (n - j) + 1
    BY <1>3, <1>4, <1>7
  <2>2. p[(n - i) + 1] \cap p[(n - j) + 1] = {}
    BY <2>1 DEF PathOK
  <2> QED BY <1>2, <2>2
<1> QED BY <1>2, <1>5, <1>6, <1>7 DEF r

(* What saveHandsTree keeps has no pass. *)
LEMMA PlanTypes ==
  ASSUME ContextTypes, NEW p, PathOK(p), p # <<>>
  PROVE  LET rest == IF p # <<>> /\ Head(p) = {} THEN Tail(p) ELSE p
         IN Reverse(rest) \in Seq((SUBSET Universe) \ {{}})
<1> DEFINE N == (SUBSET Universe) \ {{}}
           rest == IF p # <<>> /\ Head(p) = {} THEN Tail(p) ELSE p
<1>1. p \in Seq(SUBSET deck) /\ \A i \in DOMAIN p : i > 1 => p[i] # {}
  BY DEF PathOK
<1>2. Len(p) \in Nat /\ Len(p) >= 1 /\ DOMAIN p = 1 .. Len(p) /\ Head(p) = p[1]
  BY <1>1
<1>3. \A i \in 1 .. Len(p) : p[i] \in SUBSET Universe /\ (i > 1 => p[i] \in N)
  BY <1>1, <1>2 DEF ContextTypes
<1> HIDE DEF N
<1>4. CASE p[1] = {}
  <2>1. Tail(p) \in Seq(SUBSET deck) /\ Len(Tail(p)) = Len(p) - 1
        /\ \A i \in 1 .. Len(p) - 1 : Tail(p)[i] = p[i + 1]
    BY <1>1, <1>2
  <2>2. \A i \in 1 .. Len(p) - 1 : Tail(p)[i] \in N
    <3>1. \A i \in 1 .. Len(p) - 1 : i + 1 \in 1 .. Len(p) /\ i + 1 > 1
      BY <1>2
    <3> QED BY <1>3, <2>1, <3>1
  <2>3. Tail(p) \in Seq(N)
    BY <2>1, <2>2, SeqOver
  <2>4. rest = Tail(p)
    BY <1>2, <1>4
  <2> QED BY <2>3, <2>4, ReverseIs DEF N
<1>5. CASE p[1] # {}
  <2>1. \A i \in 1 .. Len(p) : p[i] \in N
    <3>1. \A i \in 1 .. Len(p) : i = 1 \/ i > 1
      BY <1>2
    <3>2. p[1] \in N
      BY <1>2, <1>3, <1>5 DEF N
    <3> QED BY <1>3, <3>1, <3>2
  <2>2. p \in Seq(N)
    BY <1>1, <2>1, SeqOver, SMTT(60)
  <2>3. rest = p
    BY <1>2, <1>5
  <2> QED BY <2>2, <2>3, ReverseIs DEF N
<1> QED BY <1>4, <1>5

---------------------------------------------------------------------------
(* The invariant holds *)

LEMMA SageInit == Init => SageInv
<1> SUFFICES ASSUME Init PROVE SageInv
  OBVIOUS
<1>1. ContextTypes
  <2>1. deck \in SUBSET Universe
    BY DealsAssumption DEF Init
  <2>2. ba_last \in SUBSET Universe /\ kakumei \in BOOLEAN
    BY DEF Init
  <2>3. saved \in Seq((SUBSET Universe) \ {{}})
    <3> DEFINE N == (SUBSET Universe) \ {{}}
    <3> HIDE DEF N
    <3>1. saved = <<>> /\ <<>> \in Seq(N)
      BY DEF Init
    <3> QED BY <3>1 DEF N
  <2> QED BY <2>1, <2>2, <2>3 DEF ContextTypes
<1>2. SearchOK /\ PutIsLegal /\ PlanPlaysOut
  BY DEF Init, SearchOK, PutIsLegal, PlanPlaysOut
<1> QED BY <1>1, <1>2 DEF SageInv

(* An answer that may be put ends the search. *)
LEMMA ReplyOK ==
  ASSUME ContextTypes, NEW h, NEW from, Reply(h, from), MayPut(h), saved' \in Seq((SUBSET Universe) \ {{}}),
         PlanPlaysOut'
  PROVE  SageInv'
<1>1. /\ hand' = h /\ pc' = "reply" /\ nodes' = {} /\ rated' = {}
      /\ rule' = rule /\ deck' = deck /\ ba_last' = ba_last /\ kakumei' = kakumei
  BY DEF Reply, ctx
<1>2. ContextTypes' /\ SearchOK'
  BY <1>1 DEF ContextTypes, SearchOK
<1>3. PutIsLegal'
  BY <1>1 DEF PutIsLegal, MayPut
<1> QED BY <1>2, <1>3 DEF SageInv

LEMMA FoundOK ==
  ASSUME ContextTypes, SearchOK, Found
  PROVE  SageInv'
<1>1. PICK nd \in nodes : \E result \in Results(nd) :
        /\ saved' = LET plan == saveHandsTree(result) IN IF plan = <<>> THEN plan ELSE Front(plan)
        /\ Reply(HeirHand(result), "found")
  BY DEF Found
<1>2. PICK result \in Results(nd) :
        /\ saved' = LET plan == saveHandsTree(result) IN IF plan = <<>> THEN plan ELSE Front(plan)
        /\ Reply(HeirHand(result), "found")
  BY <1>1
<1> DEFINE p == result.path
           plan == saveHandsTree(result)
           N == (SUBSET Universe) \ {{}}
<1>3. saved' = (IF plan = <<>> THEN plan ELSE Front(plan)) /\ Reply(HeirHand(result), "found")
  BY <1>2
<1>4. hand' = HeirHand(result) /\ how' = "found" /\ deck' = deck
  BY <1>3 DEF Reply, ctx
<1>5. pc = "search"
  BY DEF Found
<1>6. CASE isRoot(result) /\ ba_last # {}
  <2>1. HeirHand(result) = {} /\ p = <<>>
    BY <1>6 DEF HeirHand, isRoot
  <2>2. MayPut({})
    BY <1>6, HandsAreCards, PutOnField DEF MayPut, ContextTypes
  <2>3. plan = <<>>
    <3>1. plan = Reverse(<<>>)
      BY <2>1 DEF saveHandsTree
    <3> QED BY <3>1 DEF Reverse
  <2> HIDE DEF plan
  <2>4. saved' \in Seq(N)
    BY <1>3, <2>3
  <2>5. PlanPlaysOut'
    BY <1>4, <2>1 DEF PlanPlaysOut
  <2> QED BY <1>3, <2>1, <2>2, <2>4, <2>5, ReplyOK
<1>7. CASE ~isRoot(result) /\ NodeOK(result) /\ UNION Range(p) = deck
  <2>1. PathOK(p) /\ p # <<>>
    BY <1>7 DEF NodeOK, isRoot
  <2>2. HeirHand(result) = p[1] /\ MayPut(HeirHand(result))
    BY <1>7, HeirOK
  <2>3. plan \in Seq(N)
    BY <2>1, PlanTypes DEF saveHandsTree
  <2>4. saved' \in Seq(N)
    <3> HIDE DEF plan, N
    <3>1. plan # <<>> => Front(plan) \in Seq(N)
      BY <2>3, FrontIs
    <3> QED BY <1>3, <2>3, <3>1
  <2>5. PlanPlaysOut'
    <3> SUFFICES ASSUME p[1] # {}
                 PROVE  LET q == Append(saved', hand') IN
                        /\ UNION Range(q) = deck'
                        /\ \A i, j \in DOMAIN q : i # j => q[i] \cap q[j] = {}
      BY <1>4, <2>2 DEF PlanPlaysOut
    <3> DEFINE r == Reverse(p)
    <3>1. Head(p) = p[1]
      BY <1>7, <2>2 DEF HeirHand
    <3>2. plan = r
      BY <3>1 DEF saveHandsTree
    <3>3. /\ Append(Front(r), p[1]) = r /\ UNION Range(r) = UNION Range(p)
          /\ \A i, j \in DOMAIN r : i # j => r[i] \cap r[j] = {}
      BY <2>1, PlanOf
    <3>4. r # <<>>
      <4>1. p \in Seq(SUBSET deck) /\ Len(p) >= 1
        BY <2>1 DEF PathOK
      <4>2. Len(r) = Len(p) /\ r \in Seq(SUBSET deck)
        BY <4>1, ReverseIs
      <4> QED BY <4>1, <4>2
    <3> HIDE DEF r, plan
    <3>5. Append(saved', hand') = r
      BY <1>3, <1>4, <2>2, <3>2, <3>3, <3>4
    <3> QED BY <1>4, <1>7, <3>3, <3>5
  <2> QED BY <1>3, <2>2, <2>4, <2>5, ReplyOK
<1> QED BY <1>5, <1>6, <1>7, ResultOK

(* The search ends without a node. *)
LEMMA BestOrFaultOK ==
  ASSUME ContextTypes, SearchOK, BestOrFault, UNCHANGED saved
  PROVE  SageInv'
<1>1. ASSUME NEW h \in Candidates, Reply(h, "best") PROVE SageInv'
  <2>1. MayPut(h)
    BY CandidatesOK
  <2>2. saved' \in Seq((SUBSET Universe) \ {{}})
    BY DEF ContextTypes
  <2>3. PlanPlaysOut'
    BY <1>1 DEF Reply, PlanPlaysOut
  <2> QED BY <1>1, <2>1, <2>2, <2>3, ReplyOK
<1>2. ASSUME pc' = "fault", nodes' = {}, rated' = {}, UNCHANGED <<rule, ctx, hand, how>> PROVE SageInv'
  <2>1. ContextTypes' /\ SearchOK'
    BY <1>2 DEF ContextTypes, SearchOK, ctx
  <2>2. PutIsLegal' /\ PlanPlaysOut'
    BY <1>2 DEF PutIsLegal, PlanPlaysOut
  <2> QED BY <2>1, <2>2 DEF SageInv
<1> QED BY <1>1, <1>2 DEF BestOrFault

LEMMA SageStep == SageInv /\ [Next]_vars => SageInv'
<1> SUFFICES ASSUME SageInv, [Next]_vars PROVE SageInv'
  OBVIOUS
<1>0. ContextTypes /\ SearchOK /\ PutIsLegal /\ PlanPlaysOut
  BY DEF SageInv
<1>1. ASSUME NEW field \in SUBSET (Universe \ deck), NEW gone, NEW kak \in BOOLEAN, NEW n,
             ProcessTurn(field, gone, kak, n)
      PROVE  SageInv'
  <2>1. /\ pc = "idle" /\ deck # {} /\ ba_last' = field /\ kakumei' = kak /\ pc' = "think"
        /\ UNCHANGED <<rule, deck, nodes, rated, saved>>
    BY <1>1 DEF ProcessTurn
  <2>2. ContextTypes'
    BY <1>0, <2>1 DEF ContextTypes
  <2>3. SearchOK'
    BY <1>0, <2>1 DEF SearchOK
  <2> QED BY <2>1, <2>2, <2>3 DEF SageInv, PutIsLegal, PlanPlaysOut
<1>2. ASSUME UsePlan PROVE SageInv'
  <2> DEFINE N == (SUBSET Universe) \ {{}}
  <2>1. /\ saved # <<>> /\ Last(saved) \subseteq deck
        /\ canPut(rule, kakumei, Last(saved), ba_last) = OK
        /\ saved' = Front(saved) /\ Reply(Last(saved), "plan")
    BY <1>2 DEF UsePlan, CanUsePlan
  <2>2. saved \in Seq(N)
    BY <1>0 DEF ContextTypes
  <2> HIDE DEF N
  <2>3. saved' \in Seq(N)
    BY <2>1, <2>2, FrontIs
  <2>4. Last(saved) \in N
    BY <2>1, <2>2 DEF Last
  <2>5. MayPut(Last(saved))
    BY <2>1, <2>4 DEF MayPut, N
  <2>6. PlanPlaysOut'
    BY <2>1 DEF Reply, PlanPlaysOut
  <2> QED BY <1>0, <2>1, <2>3, <2>5, <2>6, ReplyOK DEF N
<1>3. ASSUME StartSearch PROVE SageInv'
  <2>1. /\ pc = "think" /\ saved' = <<>> /\ pc' = "search" /\ nodes' = {Root} /\ rated' = {}
        /\ rule' = rule /\ deck' = deck /\ ba_last' = ba_last /\ kakumei' = kakumei
    BY <1>3 DEF StartSearch, ctx
  <2>2. ContextTypes'
    BY <1>0, <2>1 DEF ContextTypes
  <2>3. /\ Root.path = <<>> /\ Root.tefda = deck /\ Root.kak = kakumei
    BY DEF Root
  <2>4. PathOK(<<>>) /\ deck = deck \ UNION Range(<<>>)
    BY DEF PathOK, Range
  <2>5. NodeOK(Root)
    BY <1>0, <2>3, <2>4 DEF NodeOK, ContextTypes, isRoot
  <2>6. \A nd : NodeOK(nd) => NodeOK(nd)'
    BY <2>1 DEF NodeOK, PathOK, MayPut, isRoot
  <2>7. SearchOK'
    BY <1>0, <2>1, <2>5, <2>6 DEF SearchOK
  <2> QED BY <2>1, <2>2, <2>7 DEF SageInv, PutIsLegal, PlanPlaysOut
<1>4. ASSUME Found PROVE SageInv'
  BY <1>0, <1>4, FoundOK
<1>5. ASSUME TimeUp PROVE SageInv'
  BY <1>0, <1>5, BestOrFaultOK DEF TimeUp
<1>6. ASSUME Deepen PROVE SageInv'
  <2>1. /\ pc = "search" /\ pc' = "search" /\ nodes' = NextLevel /\ rated' = Candidates /\ saved' = saved
        /\ rule' = rule /\ deck' = deck /\ ba_last' = ba_last /\ kakumei' = kakumei
    BY <1>6 DEF Deepen, NoResult, ctx
  <2>2. ContextTypes'
    BY <1>0, <2>1 DEF ContextTypes
  <2>3. \A nd : (NodeOK(nd) => NodeOK(nd)') /\ (MayPut(nd) => MayPut(nd)')
    BY <2>1 DEF NodeOK, PathOK, MayPut, isRoot
  <2>4. \A nd \in nodes' : NodeOK(nd)' /\ ~isRoot(nd)'
    <3>1. \A nd \in NextLevel : NodeOK(nd) /\ ~isRoot(nd)
      BY <1>0, NextLevelOK
    <3> QED BY <2>1, <2>3, <3>1 DEF isRoot
  <2>5. \A h \in rated' : MayPut(h)'
    <3>1. \A h \in Candidates : MayPut(h)
      BY <1>0, CandidatesOK
    <3> QED BY <2>1, <2>3, <3>1
  <2>6. SearchOK'
    BY <1>0, <2>1, <2>4, <2>5 DEF SearchOK
  <2> QED BY <2>1, <2>2, <2>6 DEF SageInv, PutIsLegal, PlanPlaysOut
<1>7. ASSUME Exhausted PROVE SageInv'
  BY <1>0, <1>7, BestOrFaultOK DEF Exhausted
<1>8. ASSUME PutDone PROVE SageInv'
  <2>1. /\ pc = "reply" /\ deck' = deck \ hand /\ pc' = "idle" /\ ba_last' = {} /\ kakumei' = FALSE
        /\ UNCHANGED <<rule, nodes, rated, saved>>
    BY <1>8 DEF PutDone
  <2>2. ContextTypes'
    BY <1>0, <2>1 DEF ContextTypes
  <2>3. SearchOK'
    BY <1>0, <2>1 DEF SearchOK
  <2> QED BY <2>1, <2>2, <2>3 DEF SageInv, PutIsLegal, PlanPlaysOut
<1>9. ASSUME NEW deal \in Deals, NewGame(deal) PROVE SageInv'
  <2>1. /\ pc = "idle" /\ deck' = deal /\ deal \in SUBSET Universe
        /\ UNCHANGED <<rule, ba_last, kakumei, pc, nodes, rated, saved>>
    BY <1>9, DealsAssumption DEF NewGame
  <2>2. ContextTypes'
    BY <1>0, <2>1 DEF ContextTypes
  <2>3. SearchOK'
    BY <1>0, <2>1 DEF SearchOK
  <2> QED BY <2>1, <2>2, <2>3 DEF SageInv, PutIsLegal, PlanPlaysOut
<1>10. ASSUME UNCHANGED vars PROVE SageInv'
  BY <1>0, <1>10 DEF vars, SageInv, ContextTypes, SearchOK, PutIsLegal, PlanPlaysOut,
                     NodeOK, PathOK, MayPut, isRoot
<1> QED BY <1>1, <1>2, <1>3, <1>4, <1>5, <1>6, <1>7, <1>8, <1>9, <1>10 DEF Next

LEMMA SageInvariant == Spec => []SageInv
BY SageInit, SageStep, PTL DEF Spec

(* think(): the hand it returns, from a plan, a search or a search cut short, is the player's own and *)
(* may be put on the field, and a player that leads never passes.                                     *)
THEOREM SagePutsLegal == Spec => []PutIsLegal
<1>1. SageInv => PutIsLegal
  BY DEF SageInv
<1> QED BY <1>1, SageInvariant, PTL

(* saveHandsTree(): the hand put and the plan that is saved with it are all the cards of the player, *)
(* each in one hand.                                                                                 *)
THEOREM SagePlansPlayOut == Spec => []PlanPlaysOut
<1>1. SageInv => PlanPlaysOut
  BY DEF SageInv
<1> QED BY <1>1, SageInvariant, PTL

(* createChild(): along a path of the search no card is put twice, and a node holds the rest. *)
THEOREM SageNodesHoldTheRest == Spec => []NodesHoldTheRest
<1>1. SageInv => NodesHoldTheRest
  BY DEF SageInv, SearchOK, NodeOK, PathOK, NodesHoldTheRest
<1> QED BY <1>1, SageInvariant, PTL

(* _genAllCombination(): on a field of up to three cards the search misses no hand that can be put. *)
THEOREM SageEnumeratesAll == Spec => []EnumeratesUpToThree
<1>1. SageInv => EnumeratesUpToThree
  <2> SUFFICES ASSUME SageInv, NEW nd \in nodes, Cardinality(ba_cards) <= 3
               PROVE  Hands(nd) = LegalHands(nd)
    BY DEF EnumeratesUpToThree
  <2>1. ContextTypes /\ SearchOK
    BY DEF SageInv
  <2>2. nd.tefda \in CardSets /\ nd.kak \in BOOLEAN
    BY <2>1, HandsOK
  <2>3. ba_cards \in CardSets
    BY <2>1, HandsAreCards DEF ba_cards, CardSets
  <2>4. ASSUME NEW h \in Hands(nd) PROVE h \in LegalHands(nd)
    BY <2>2, OnlyLegal DEF Hands, LegalHands
  <2>5. ASSUME NEW h \in LegalHands(nd) PROVE h \in Hands(nd)
    BY <2>2, <2>3, NoneMissed DEF Hands, LegalHands
  <2> QED BY <2>4, <2>5
<1> QED BY <1>1, SageInvariant, PTL

=============================================================================
