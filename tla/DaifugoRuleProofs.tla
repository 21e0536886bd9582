------------------------- MODULE DaifugoRuleProofs -------------------------
(***************************************************************************)
(* Facts about card sets and the rule operators, for every set of cards.   *)
(***************************************************************************)
EXTENDS DaifugoRule, TLAPS, WellFoundedInduction, FiniteSetTheorems

(* A set of cards has a smallest element, which is what Min denotes. *)
LEMMA MinExists ==
  ASSUME NEW S, S \in CardSets, S # {}
  PROVE  /\ Min(S) \in S
         /\ \A y \in S : Min(S) <= y
<1>1. S \subseteq Nat
  BY DEF CardSets, CardIds
<1>2. PICK x \in S : \A y \in S : ~(<<y, x>> \in OpToRel(<, Nat))
  BY <1>1, NatLessThanWellFounded, WFMin, Zenon
<1>3. ASSUME NEW y \in S PROVE ~(y < x)
  <2>1. <<y, x>> \in Nat \X Nat
    BY <1>1
  <2>2. ~(<<y, x>>[1] < <<y, x>>[2])
    BY <1>2, <2>1, Zenon DEF OpToRel
  <2> QED
    BY <2>2
<1>4. \A y \in S : x <= y
  BY <1>1, <1>3
<1> QED
  BY <1>4 DEF Min

(* Sets of cards are finite, with at most 53 elements. *)
LEMMA CardSetFinite ==
  ASSUME NEW S \in CardSets
  PROVE  /\ IsFiniteSet(S) /\ Cardinality(S) \in Nat /\ Cardinality(S) <= 53
         /\ (Cardinality(S) = 0 <=> S = {})
<1>1. S \in SUBSET Nat /\ 52 \in Nat /\ \A s \in S : s <= 52
  BY DEF CardSets, CardIds
<1>2. IsFiniteSet(S) /\ Cardinality(S) <= 52 + 1
  BY <1>1, FS_BoundedSetOfNaturals, Zenon
<1> QED
  BY <1>2, FS_CardinalityType, FS_EmptySet

(* Two different cards of one suit are at least four table indices apart. *)
LEMMA SuitGap ==
  ASSUME NEW a \in CardIds, NEW b \in CardIds, a # JOKER, b # JOKER,
         getSuit(a) = getSuit(b), a < b
  PROVE  b - a >= 4
<1>1. a % 4 \in 0 .. 3 /\ b % 4 \in 0 .. 3
  BY DEF CardIds
<1>2. a % 4 = b % 4
  BY <1>1 DEF getSuit, isJoker, SuitNames
<1> QED
  BY <1>2 DEF CardIds

(* _isKaidan answers false for every set of cards. *)
THEOREM KaidanNever ==
  ASSUME NEW cards \in CardSets
  PROVE  ~isKaidan(cards)
<1> DEFINE list == WithoutJoker(cards)
<1> SUFFICES ASSUME isKaidan(cards) PROVE FALSE
  OBVIOUS
<1>1. /\ list \in CardSets /\ IsFiniteSet(cards) /\ IsFiniteSet(list)
      /\ JOKER \notin list
  BY CardSetFinite DEF CardSets, WithoutJoker
<1>2. Cardinality(cards) >= 3
  BY DEF isKaidan
<1>3. \E c, d \in list : c # d
  <2> SUFFICES ASSUME \A c, d \in list : c = d PROVE FALSE
    OBVIOUS
  <2>1. Cardinality(list) <= 1
    BY <1>1, FS_EmptySet, FS_Singleton
  <2>2. Cardinality(cards) <= Cardinality(list) + 1
    <3>1. CASE JOKER \in cards
      <4>1. Cardinality(cards \ {JOKER}) = Cardinality(cards) - 1
        BY <3>1, <1>1, FS_RemoveElement, Zenon
      <4> QED
        BY <4>1, <1>1, FS_CardinalityType DEF WithoutJoker
    <3>2. CASE JOKER \notin cards
      <4>1. cards = list
        BY <3>2 DEF WithoutJoker
      <4> QED BY <4>1, <1>1, FS_CardinalityType
    <3> QED BY <3>1, <3>2
  <2> QED
    BY <1>1, <1>2, <2>1, <2>2, FS_CardinalityType
<1>4. list # {}
  BY <1>3
<1> DEFINE m == Min(list)
           rem == list \ {m}
           s == Min(rem)
<1>5. m \in list /\ \A y \in list : m <= y
  BY <1>1, <1>4, MinExists
<1>6. rem \in CardSets /\ rem # {}
  BY <1>1, <1>3 DEF CardSets
<1>7. s \in rem /\ \A y \in rem : s <= y
  BY <1>6, MinExists
<1>8. m \in CardIds /\ s \in CardIds /\ m < s /\ m # JOKER /\ s # JOKER
  BY <1>1, <1>5, <1>7 DEF CardSets, CardIds
<1>9. Adjacent(list, m, s)
  BY <1>1, <1>5, <1>7, <1>8 DEF Adjacent, CardSets, CardIds
<1>10. JokersSpent(list, m) = 0
  <2>1. {c \in list : c < m} = {}
    BY <1>1, <1>5, <1>8 DEF CardSets, CardIds
  <2> QED
    BY <2>1, <1>8, FS_EmptySet DEF JokersSpent, CardIds
<1>11. compareTo(s, m) - 1 <= JokerCount(cards)
  BY <1>5, <1>7, <1>9, <1>10 DEF isKaidan, JokerCount
<1>12. getSuit(m) = getSuit(s)
  BY <1>5, <1>7 DEF isKaidan
<1>13. s - m >= 4
  BY <1>8, <1>12, SuitGap
<1> QED
  BY <1>8, <1>11, <1>13 DEF compareTo, JokerCount, CardIds

(* Hence rule B allows and refuses exactly what rule A does. *)
THEOREM RuleBIsRuleA ==
  ASSUME NEW kak, NEW cards \in CardSets, NEW last \in CardSets
  PROVE  canPutB(kak, cards, last) = canPutA(kak, cards, last)
BY KaidanNever DEF canPutB

---------------------------------------------------------------------------
(* The order canPut puts on hands *)

(* Cards have one number when they are in one row of the table. *)
LEMMA NumIsRow ==
  ASSUME NEW a \in CardIds, NEW b \in CardIds
  PROVE  (getNum(a) = getNum(b)) <=> (a \div 4 = b \div 4)
<1> DEFINE row(c) == c \div 4
<1>1. /\ row(a) \in 0 .. 13 /\ row(b) \in 0 .. 13
      /\ (a = 52 <=> row(a) = 13) /\ (b = 52 <=> row(b) = 13)
  BY DEF CardIds
<1> HIDE DEF row
<1>2. /\ getNum(a) = IF row(a) = 13 THEN 0 ELSE ((row(a) + 2) % 13) + 1
      /\ getNum(b) = IF row(b) = 13 THEN 0 ELSE ((row(b) + 2) % 13) + 1
  BY <1>1 DEF getNum, isJoker, JOKER, row
<1>3. (getNum(a) = getNum(b)) <=> (row(a) = row(b))
  BY <1>1, <1>2
<1> QED BY <1>3 DEF row

(* compareCards finds the second card the stronger one: by the rows of the table, which a    *)
(* revolution turns round, except for the joker.                                             *)
LEMMA CompareRows ==
  ASSUME NEW kak \in BOOLEAN, NEW a \in CardIds, NEW b \in CardIds
  PROVE  compareCards(kak, a, b) > 0 <=>
           /\ a # JOKER
           /\ \/ b = JOKER
              \/ ~kak /\ a \div 4 < b \div 4
              \/ kak /\ b \div 4 < a \div 4
<1> DEFINE row(c) == c \div 4
<1>1. (a = JOKER <=> row(a) = 13) /\ (b = JOKER <=> row(b) = 13)
  BY DEF CardIds, JOKER
<1>2. row(a) # row(b) => (a - b > 0 <=> row(a) > row(b))
  BY DEF CardIds
<1>3. (getNum(a) = getNum(b)) <=> (row(a) = row(b))
  BY NumIsRow
<1>4. row(a) \in 0 .. 13 /\ row(b) \in 0 .. 13
  BY DEF CardIds
<1>5. CASE kak = TRUE
  <2> HIDE DEF row
  <2>1. compareCards(kak, a, b) > 0 <=> a # JOKER /\ (b = JOKER \/ row(b) < row(a))
    BY <1>1, <1>2, <1>3, <1>4, <1>5 DEF compareCards, compareTo, isJoker, CardIds
  <2> QED BY <2>1, <1>5 DEF row
<1>6. CASE kak = FALSE
  <2> HIDE DEF row
  <2>1. compareCards(kak, a, b) > 0 <=> a # JOKER /\ (b = JOKER \/ row(a) < row(b))
    BY <1>1, <1>2, <1>3, <1>4, <1>6 DEF compareCards, compareTo, isJoker, CardIds
  <2> QED BY <2>1, <1>6 DEF row
<1> QED BY <1>5, <1>6

(* A card that comes later in the table is not the weaker one, and in a revolution one that  *)
(* comes earlier is not, the joker aside.                                                    *)
LEMMA CompareLater ==
  ASSUME NEW kak \in BOOLEAN, NEW a \in CardIds, NEW b \in CardIds,
         IF kak THEN b <= a /\ a # JOKER ELSE a <= b
  PROVE  compareCards(kak, a, b) >= 0
<1>1. a = JOKER => ~kak /\ b = JOKER
  BY DEF CardIds, JOKER
<1>2. a = b => getNum(a) = getNum(b)
  OBVIOUS
<1>3. a \in Int /\ b \in Int
  BY DEF CardIds
<1>4. CASE kak = TRUE
  BY <1>1, <1>2, <1>3, <1>4 DEF compareCards, compareTo, isJoker
<1>5. CASE kak = FALSE
  BY <1>1, <1>2, <1>3, <1>5 DEF compareCards, compareTo, isJoker
<1> QED BY <1>4, <1>5

(* compareCards is a strict order on strength, kakumei or not. *)
LEMMA CompareOrder ==
  ASSUME NEW kak \in BOOLEAN,
         NEW x \in CardIds, NEW y \in CardIds, NEW z \in CardIds,
         compareCards(kak, x, y) > 0
  PROVE  /\ ~(compareCards(kak, y, x) > 0)
         /\ compareCards(kak, y, z) > 0 => compareCards(kak, x, z) > 0
<1> DEFINE row(c) == c \div 4
<1>2. ASSUME NEW a \in CardIds, NEW b \in CardIds
      PROVE  compareCards(kak, a, b) > 0 <=>
               /\ a # JOKER
               /\ \/ b = JOKER
                  \/ ~kak /\ row(a) < row(b)
                  \/ kak /\ row(b) < row(a)
  BY CompareRows
<1>3. row(x) \in Int /\ row(y) \in Int /\ row(z) \in Int
  BY DEF CardIds
<1>4. (y = JOKER <=> row(y) = 13) /\ (z = JOKER <=> row(z) = 13) /\ row(z) <= 13 /\ row(y) <= 13
  BY DEF CardIds, JOKER
<1> HIDE DEF row
<1> QED
  BY <1>2, <1>3, <1>4

(* When a non-empty hand may be put on a non-empty one. *)
LEMMA PutOnHand ==
  ASSUME NEW kak \in BOOLEAN, NEW a \in CardSets, NEW b \in CardSets,
         a # {}, b # {}
  PROVE  canPutA(kak, a, b) = OK <=>
           /\ HasFirstCard(a) /\ HasFirstCard(b)
           /\ Cardinality(a) = Cardinality(b)
           /\ compareCards(kak, Min(b), Min(a)) > 0
<1>1. compareCards(kak, Min(b), Min(a)) \in Int
  BY DEF compareCards
<1> QED
  BY <1>1 DEF canPutA, FirstCard, OK, ERR_DIFFERENT_NUM, ERR_COUNT_UNMATCH,
              ERR_INVALID_BA, ERR_NOT_STRONG

(* Putting on is transitive and asymmetric. *)
LEMMA PutOrder ==
  ASSUME NEW kak \in BOOLEAN,
         NEW a \in CardSets, NEW b \in CardSets, NEW c \in CardSets,
         a # {}, b # {}, c # {}, canPutA(kak, b, a) = OK
  PROVE  /\ canPutA(kak, a, b) # OK
         /\ canPutA(kak, c, b) = OK => canPutA(kak, c, a) = OK
<1>1. Min(a) \in CardIds /\ Min(b) \in CardIds /\ Min(c) \in CardIds
  BY MinExists DEF CardSets
<1>2. compareCards(kak, Min(a), Min(b)) > 0
  BY PutOnHand
<1>3. ~(compareCards(kak, Min(b), Min(a)) > 0)
  BY <1>1, <1>2, CompareOrder
<1>4. compareCards(kak, Min(b), Min(c)) > 0 => compareCards(kak, Min(a), Min(c)) > 0
  BY <1>1, <1>2, CompareOrder
<1> QED
  BY <1>3, <1>4, PutOnHand, ZenonT(60)

(* One card, and two cards in order. *)
LEMMA SingleCard ==
  ASSUME NEW a \in CardIds
  PROVE  {a} \in CardSets /\ Min({a}) = a /\ Cardinality({a}) = 1 /\ HasFirstCard({a})
<1>1. {a} \in CardSets /\ {a} # {}
  BY DEF CardSets
<1>2. Min({a}) = a
  BY <1>1, MinExists
<1> QED BY <1>1, <1>2, FS_Singleton DEF HasFirstCard, WithoutJoker

LEMMA PairOfCards ==
  ASSUME NEW a \in CardIds, NEW b \in CardIds, a < b
  PROVE  /\ {a, b} \in CardSets /\ Min({a, b}) = a /\ Cardinality({a, b}) = 2
         /\ HasFirstCard({a, b}) <=> (b = JOKER \/ a \div 4 = b \div 4)
<1>1. {a, b} \in CardSets /\ {a, b} # {}
  BY DEF CardSets
<1>2. Min({a, b}) = a
  <2>1. Min({a, b}) \in {a, b} /\ Min({a, b}) <= a
    BY <1>1, MinExists
  <2> QED BY <2>1 DEF CardIds
<1>3. Cardinality({a, b}) = 2
  <2>1. b \notin {a} /\ {a, b} = {a} \cup {b}
    BY DEF CardIds
  <2>2. IsFiniteSet({a}) /\ Cardinality({a}) = 1
    BY FS_Singleton
  <2>3. Cardinality({a} \cup {b}) = Cardinality({a}) + 1
    BY <2>1, <2>2, FS_AddElement
  <2> QED BY <2>1, <2>2, <2>3
<1>4. a # JOKER
  BY DEF CardIds, JOKER
<1>5. HasFirstCard({a, b}) <=> (b = JOKER \/ getNum(a) = getNum(b))
  BY <1>4 DEF HasFirstCard, WithoutJoker
<1> QED BY <1>1, <1>2, <1>3, <1>5, NumIsRow

---------------------------------------------------------------------------
(* conv2Vector lists the cards of the set *)

Below(S, c) == {d \in S : d < c}

(* A non-empty set of cards has a largest element. *)
LEMMA MaxExists ==
  ASSUME NEW S \in CardSets, S # {}
  PROVE  \E m \in S : \A y \in S : y <= m
<1> DEFINE T == {52 - y : y \in S}
<1>1. T \in CardSets /\ T # {}
  <2>1. \A y \in S : 52 - y \in CardIds
    BY DEF CardSets, CardIds
  <2>2. T \subseteq CardIds
    BY <2>1
  <2>3. PICK y0 \in S : TRUE
    OBVIOUS
  <2>4. 52 - y0 \in T
    BY <2>3
  <2> QED BY <2>2, <2>4 DEF CardSets
<1>2. Min(T) \in T /\ \A z \in T : Min(T) <= z
  BY <1>1, MinExists
<1>3. PICK m \in S : Min(T) = 52 - m
  BY <1>2
<1>4. \A y \in S : 52 - y \in T
  OBVIOUS
<1>5. \A y \in S : 52 - m <= 52 - y
  BY <1>2, <1>3, <1>4
<1> QED BY <1>5 DEF CardSets, CardIds

(* Every position of the set is taken by one of its cards. *)
LEMMA AtExists ==
  ASSUME NEW S \in CardSets, NEW k \in Nat, k < Cardinality(S)
  PROVE  \E c \in S : Cardinality(Below(S, c)) = k
<1>1. \A c : Below(S, c) \in CardSets
  BY DEF Below, CardSets
<1>2. \A c : Cardinality(Below(S, c)) \in Nat
  BY <1>1, CardSetFinite
<1>3. ASSUME NEW U \in SUBSET S, NEW m \in U, \A y \in U : y <= m,
             \A y \in S : y \in U <=> y <= m
      PROVE  Cardinality(U) = Cardinality(Below(S, m)) + 1
  <2>1. U = Below(S, m) \cup {m} /\ m \notin Below(S, m)
    <3>1. \A y \in S : y \in Int
      BY DEF CardSets, CardIds
    <3>2. m \in S /\ ~(m < m)
      BY <3>1
    <3>3. \A y \in S : y <= m <=> (y < m \/ y = m)
      BY <3>1, <3>2
    <3>4. \A y \in S : y \in U <=> (y \in Below(S, m) \/ y = m)
      BY <1>3, <3>3 DEF Below
    <3>5. Below(S, m) \subseteq S /\ m \notin Below(S, m)
      BY <3>2 DEF Below
    <3> QED BY <3>2, <3>4, <3>5
  <2>2. IsFiniteSet(Below(S, m))
    BY <1>1, CardSetFinite
  <2> QED BY <2>1, <2>2, FS_AddElement
<1> DEFINE T == {c \in S : Cardinality(Below(S, c)) >= k}
<1>4. T # {}
  <2>1. S # {}
    BY CardSetFinite
  <2>2. PICK m \in S : \A y \in S : y <= m
    BY <2>1, MaxExists
  <2>3. Cardinality(S) = Cardinality(Below(S, m)) + 1
    BY <2>2, <1>3
  <2> QED BY <2>2, <2>3, <1>2
<1>5. T \in CardSets
  BY DEF CardSets
<1>6. Min(T) \in T /\ \A y \in T : Min(T) <= y
  BY <1>4, <1>5, MinExists
<1> DEFINE c == Min(T)
<1>7. c \in S /\ Cardinality(Below(S, c)) >= k /\ c \in CardIds
  BY <1>6 DEF CardSets
<1>8. ASSUME Cardinality(Below(S, c)) > k PROVE FALSE
  <2>1. Below(S, c) # {}
    BY <1>1, <1>8, CardSetFinite
  <2>2. PICK m \in Below(S, c) : \A y \in Below(S, c) : y <= m
    BY <2>1, <1>1, MaxExists
  <2>3. m \in S /\ m < c /\ m \in CardIds
    BY <2>2 DEF Below, CardSets
  <2>4. \A y \in S : y \in Below(S, c) <=> y <= m
    BY <2>2, <2>3, <1>7 DEF Below, CardSets, CardIds
  <2>5. Cardinality(Below(S, c)) = Cardinality(Below(S, m)) + 1
    BY <2>2, <2>4, <1>3 DEF Below
  <2>6. Cardinality(Below(S, m)) >= k
    BY <2>5, <1>8, <1>2
  <2>7. m \in T
    BY <2>3, <2>6
  <2> QED BY <2>3, <2>7, <1>6, <1>7 DEF CardIds
<1> QED BY <1>2, <1>7, <1>8

(* The position of a card in the list is the number of smaller ones. *)
LEMMA AtIs ==
  ASSUME NEW S \in CardSets, NEW k \in Nat, k < Cardinality(S)
  PROVE  at(S, k) \in S /\ Cardinality(Below(S, at(S, k))) = k
<1>1. \E c \in S : Cardinality({d \in S : d < c}) = k
  BY AtExists DEF Below
<1> QED BY <1>1 DEF at, Below

LEMMA BelowCount ==
  ASSUME NEW S \in CardSets, NEW c \in S
  PROVE  /\ Cardinality(Below(S, c)) \in Nat /\ Cardinality(Below(S, c)) < Cardinality(S)
         /\ \A d \in S : c < d => Cardinality(Below(S, c)) < Cardinality(Below(S, d))
<1>1. \A d : Below(S, d) \in CardSets /\ IsFiniteSet(Below(S, d)) /\ Cardinality(Below(S, d)) \in Nat
  <2>1. \A d : Below(S, d) \in CardSets
    BY DEF Below, CardSets
  <2> QED BY <2>1, CardSetFinite
<1>2. IsFiniteSet(S) /\ c \in Int
  BY CardSetFinite DEF CardSets, CardIds
<1>3. c \notin Below(S, c)
  BY <1>2 DEF Below
<1>4. ASSUME NEW T, IsFiniteSet(T), Below(S, c) \subseteq T, c \in T
      PROVE  Cardinality(Below(S, c)) < Cardinality(T)
  <2>1. Cardinality(Below(S, c) \cup {c}) = Cardinality(Below(S, c)) + 1
    BY <1>1, <1>3, FS_AddElement
  <2>2. Below(S, c) \cup {c} \subseteq T
    BY <1>4
  <2>3. Cardinality(Below(S, c) \cup {c}) <= Cardinality(T) /\ Cardinality(T) \in Nat
    BY <1>4, <2>2, FS_Subset, FS_CardinalityType
  <2> QED BY <1>1, <2>1, <2>3
<1>5. Cardinality(Below(S, c)) < Cardinality(S)
  <2>1. Below(S, c) \subseteq S
    BY DEF Below
  <2> QED BY <2>1, <1>2, <1>4
<1>6. ASSUME NEW d \in S, c < d PROVE Cardinality(Below(S, c)) < Cardinality(Below(S, d))
  <2>1. \A x \in S : x \in Int
    BY DEF CardSets, CardIds
  <2>2. Below(S, c) \subseteq Below(S, d) /\ c \in Below(S, d)
    BY <1>6, <2>1 DEF Below
  <2> QED BY <2>2, <1>1, <1>4
<1> QED BY <1>1, <1>5, <1>6

(* conv2Vector lists every card of the set, in the order of the indices. *)
LEMMA VectorSorted ==
  ASSUME NEW S \in CardSets
  PROVE  LET v == conv2Vector(S)
             N == Cardinality(S)
         IN /\ N \in Nat /\ DOMAIN v = 1 .. N
            /\ \A j \in 1 .. N : v[j] \in S
            /\ \A j, k \in 1 .. N : j < k => v[j] < v[k]
            /\ \A c \in S : \E j \in 1 .. N : v[j] = c
<1> DEFINE v == conv2Vector(S)
           N == Cardinality(S)
<1>1. N \in Nat
  BY CardSetFinite
<1>2. DOMAIN v = 1 .. N /\ \A j \in 1 .. N : v[j] = at(S, j - 1)
  BY DEF conv2Vector
<1>3. \A j \in 1 .. N : v[j] \in S /\ Cardinality(Below(S, v[j])) = j - 1
  <2> SUFFICES ASSUME NEW j \in 1 .. N PROVE v[j] \in S /\ Cardinality(Below(S, v[j])) = j - 1
    OBVIOUS
  <2>1. j - 1 \in Nat /\ j - 1 < Cardinality(S)
    BY <1>1
  <2>2. at(S, j - 1) \in S /\ Cardinality(Below(S, at(S, j - 1))) = j - 1
    BY <2>1, AtIs
  <2> QED BY <2>2, <1>2
<1> HIDE DEF v
<1>4. \A c \in S : c \in Int
  BY DEF CardSets, CardIds
<1>5. ASSUME NEW j \in 1 .. N, NEW k \in 1 .. N, j < k PROVE v[j] < v[k]
  <2>1. v[j] \in S /\ v[k] \in S /\ v[j] \in Int /\ v[k] \in Int
    BY <1>3, <1>4
  <2>2. Cardinality(Below(S, v[j])) = j - 1 /\ Cardinality(Below(S, v[k])) = k - 1
    BY <1>3
  <2>3. ~(v[k] < v[j])
    <3>1. v[k] < v[j] => Cardinality(Below(S, v[k])) < Cardinality(Below(S, v[j]))
      BY <2>1, BelowCount
    <3> QED BY <3>1, <2>2, <1>5, <1>1
  <2>4. v[j] # v[k]
    BY <2>2, <1>5, <1>1
  <2> QED BY <2>1, <2>3, <2>4
<1>6. ASSUME NEW c \in S PROVE \E j \in 1 .. N : v[j] = c
  <2> DEFINE j == Cardinality(Below(S, c)) + 1
  <2>1. Cardinality(Below(S, c)) \in Nat /\ Cardinality(Below(S, c)) < N
    BY BelowCount
  <2>2. j \in 1 .. N
    BY <2>1, <1>1
  <2>3. v[j] \in S /\ Cardinality(Below(S, v[j])) = Cardinality(Below(S, c))
    BY <2>1, <2>2, <1>3
  <2>4. ~(v[j] < c) /\ ~(c < v[j])
    BY <2>1, <2>3, BelowCount
  <2>5. v[j] = c
    BY <2>3, <2>4, <1>4
  <2> QED BY <2>2, <2>5
<1> QED BY <1>1, <1>2, <1>3, <1>5, <1>6 DEF v

---------------------------------------------------------------------------
(* The text of a card *)

(* The rows of the table of letters, and where _calcCardIdFromString finds them. *)
LEMMA RankLetters ==
  /\ NumLetters[4] = "3" /\ NumLetters[5] = "4" /\ NumLetters[6] = "5" /\ NumLetters[7] = "6"
  /\ NumLetters[8] = "7" /\ NumLetters[9] = "8" /\ NumLetters[10] = "9" /\ NumLetters[11] = "0"
  /\ NumLetters[12] = "J" /\ NumLetters[13] = "Q" /\ NumLetters[14] = "K" /\ NumLetters[2] = "A"
  /\ NumLetters[3] = "2"
BY DEF NumLetters

LEMMA RankBack ==
  ASSUME NEW r \in 0 .. 12
  PROVE  RankRow[NumLetters[((r + 2) % 13) + 2]] = r
<1> DEFINE letters == {NumLetters[i] : i \in 1 .. 14}
<1>1. \A i \in 1 .. 14 : NumLetters[i] \in letters
  OBVIOUS
<1> HIDE DEF letters
<1>2. /\ "3" \in letters /\ "4" \in letters /\ "5" \in letters /\ "6" \in letters /\ "7" \in letters
      /\ "8" \in letters /\ "9" \in letters /\ "0" \in letters /\ "J" \in letters /\ "Q" \in letters
      /\ "K" \in letters /\ "A" \in letters /\ "2" \in letters
  BY <1>1, RankLetters
<1>3. CASE r = 0
  <2>1. RankRow["3"] = 0
    BY <1>2 DEF RankRow, letters
  <2>2. ((r + 2) % 13) + 2 = 4
    BY <1>3
  <2> QED BY <1>3, <2>1, <2>2, RankLetters
<1>4. CASE r = 1
  <2>1. RankRow["4"] = 1
    BY <1>2 DEF RankRow, letters
  <2>2. ((r + 2) % 13) + 2 = 5
    BY <1>4
  <2> QED BY <1>4, <2>1, <2>2, RankLetters
<1>5. CASE r = 2
  <2>1. RankRow["5"] = 2
    BY <1>2 DEF RankRow, letters
  <2>2. ((r + 2) % 13) + 2 = 6
    BY <1>5
  <2> QED BY <1>5, <2>1, <2>2, RankLetters
<1>6. CASE r = 3
  <2>1. RankRow["6"] = 3
    BY <1>2 DEF RankRow, letters
  <2>2. ((r + 2) % 13) + 2 = 7
    BY <1>6
  <2> QED BY <1>6, <2>1, <2>2, RankLetters
<1>7. CASE r = 4
  <2>1. RankRow["7"] = 4
    BY <1>2 DEF RankRow, letters
  <2>2. ((r + 2) % 13) + 2 = 8
    BY <1>7
  <2> QED BY <1>7, <2>1, <2>2, RankLetters
<1>8. CASE r = 5
  <2>1. RankRow["8"] = 5
    BY <1>2 DEF RankRow, letters
  <2>2. ((r + 2) % 13) + 2 = 9
    BY <1>8
  <2> QED BY <1>8, <2>1, <2>2, RankLetters
<1>9. CASE r = 6
  <2>1. RankRow["9"] = 6
    BY <1>2 DEF RankRow, letters
  <2>2. ((r + 2) % 13) + 2 = 10
    BY <1>9
  <2> QED BY <1>9, <2>1, <2>2, RankLetters
<1>10. CASE r = 7
  <2>1. RankRow["0"] = 7
    BY <1>2 DEF RankRow, letters
  <2>2. ((r + 2) % 13) + 2 = 11
    BY <1>10
  <2> QED BY <1>10, <2>1, <2>2, RankLetters
<1>11. CASE r = 8
  <2>1. RankRow["J"] = 8
    BY <1>2 DEF RankRow, letters
  <2>2. ((r + 2) % 13) + 2 = 12
    BY <1>11
  <2> QED BY <1>11, <2>1, <2>2, RankLetters
<1>12. CASE r = 9
  <2>1. RankRow["Q"] = 9
    BY <1>2 DEF RankRow, letters
  <2>2. ((r + 2) % 13) + 2 = 13
    BY <1>12
  <2> QED BY <1>12, <2>1, <2>2, RankLetters
<1>13. CASE r = 10
  <2>1. RankRow["K"] = 10
    BY <1>2 DEF RankRow, letters
  <2>2. ((r + 2) % 13) + 2 = 14
    BY <1>13
  <2> QED BY <1>13, <2>1, <2>2, RankLetters
<1>14. CASE r = 11
  <2>1. RankRow["A"] = 11
    BY <1>2 DEF RankRow, letters
  <2>2. ((r + 2) % 13) + 2 = 2
    BY <1>14
  <2> QED BY <1>14, <2>1, <2>2, RankLetters
<1>15. CASE r = 12
  <2>1. RankRow["2"] = 12
    BY <1>2 DEF RankRow, letters
  <2>2. ((r + 2) % 13) + 2 = 3
    BY <1>15
  <2> QED BY <1>15, <2>1, <2>2, RankLetters
<1> QED BY <1>3, <1>4, <1>5, <1>6, <1>7, <1>8, <1>9, <1>10, <1>11, <1>12, <1>13, <1>14, <1>15

LEMMA SuitBack ==
  /\ SuitLetter["CLV"] = "C" /\ SuitLetter["DIA"] = "D" /\ SuitLetter["HRT"] = "H"
  /\ SuitLetter["SPD"] = "S" /\ SuitLetter["JKR"] = "J"
  /\ SuitColumn["C"] = 0 /\ SuitColumn["D"] = 1 /\ SuitColumn["H"] = 2 /\ SuitColumn["S"] = 3
  /\ DOMAIN SuitColumn = {"C", "D", "H", "S"}
BY DEF SuitLetter, SuitColumn

(* The constructor of Card from a text reads back what Card::toString wrote, for each of the 53 cards. *)
THEOREM CardCodec ==
  ASSUME NEW c \in CardIds
  PROVE  fromString(toString(c)) = c
<1>1. CASE c = JOKER
  <2>1. toString(c)[1] = "J"
    BY <1>1, SuitBack DEF toString, getSuit, isJoker
  <2> QED BY <1>1, <2>1, SuitBack DEF fromString
<1>2. CASE c # JOKER
  <2> DEFINE r == c \div 4
             k == c % 4
  <2>1. r \in 0 .. 12 /\ k \in 0 .. 3 /\ c = r * 4 + k
    BY <1>2 DEF CardIds, JOKER
  <2>2. getNum(c) + 1 = ((r + 2) % 13) + 2 /\ getSuit(c) = SuitNames[k + 1]
    BY <1>2, <2>1 DEF getNum, getSuit, isJoker
  <2> HIDE DEF r, k
  <2>3. SuitLetter[getSuit(c)] \in DOMAIN SuitColumn /\ SuitColumn[SuitLetter[getSuit(c)]] = k
    BY <2>1, <2>2, SuitBack DEF SuitNames
  <2>4. RankRow[NumLetters[getNum(c) + 1]] = r
    BY <2>1, <2>2, RankBack
  <2> QED BY <2>1, <2>3, <2>4 DEF fromString, toString
<1> QED BY <1>1, <1>2

(* The constructor of CardSet from a text reads back what CardSet::toString wrote: every set of cards crosses   *)
(* the JSON messages unchanged.                                                              *)
THEOREM CardSetCodec ==
  ASSUME NEW S \in CardSets
  PROVE  CardSetFromString(CardSetToString(S)) = S
<1> DEFINE v == conv2Vector(S)
           N == Cardinality(S)
           w == CardSetToString(S)
<1>1. /\ DOMAIN v = 1 .. N /\ \A j \in 1 .. N : v[j] \in S
      /\ \A c \in S : \E j \in 1 .. N : v[j] = c
  BY VectorSorted
<1>2. w = [j \in DOMAIN v |-> toString(v[j])]
  BY DEF CardSetToString
<1> HIDE DEF v, N, w
<1>3. DOMAIN w = 1 .. N /\ \A j \in 1 .. N : fromString(w[j]) = v[j]
  <2>1. DOMAIN w = 1 .. N /\ \A j \in 1 .. N : w[j] = toString(v[j])
    BY <1>1, <1>2
  <2>2. \A j \in 1 .. N : v[j] \in CardIds
    BY <1>1 DEF CardSets
  <2> QED BY <2>1, <2>2, CardCodec
<1>4. CardSetFromString(w) = {fromString(w[j]) : j \in 1 .. N}
  BY <1>3 DEF CardSetFromString
<1>5. {fromString(w[j]) : j \in 1 .. N} = S
  BY <1>1, <1>3
<1> QED BY <1>4, <1>5 DEF w

=============================================================================
