----------------------------- MODULE PlayProofs -----------------------------
(***************************************************************************)
(* The play on one field.  A trick is ordered, whatever the cards and the   *)
(* rule, and its hands survive their text form.  PoorPlayer puts only legal *)
(* hands of its own cards, never passes when it leads or could put a single *)
(* card or a pair, and gives the weakest card, for every set of cards and   *)
(* every width of size_t that holds a hand.                                 *)
(***************************************************************************)
EXTENDS Trick, PoorPlayer, DaifugoRuleProofs

---------------------------------------------------------------------------
(* The trick *)

(* Every hand of the trick has been put: it is not a pass. *)
HandsArePut == \A p \in DOMAIN ba : ba[p] # {}

TrickInv == TrickTypeOK /\ HandsArePut /\ TrickMonotone

(* The rule object asked makes no difference. *)
LEMMA CanPutIsA ==
  ASSUME NEW kak, NEW cards \in CardSets, NEW last \in CardSets
  PROVE  canPut(Rule, kak, cards, last) = canPutA(kak, cards, last)
BY RuleBIsRuleA DEF canPut

LEMMA TrickInvInit == TrickInit => TrickInv
<1> SUFFICES ASSUME TrickInit PROVE TrickInv
  OBVIOUS
<1>1. ba = <<>> /\ DOMAIN ba = {} /\ rest = Pack /\ revolution \in BOOLEAN
  BY DEF TrickInit
<1> QED
  BY <1>1 DEF TrickInv, TrickTypeOK, HandsArePut, TrickMonotone

LEMMA TrickInvPut ==
  ASSUME TrickInv, NEW cards \in SUBSET rest, Put(cards)
  PROVE  TrickInv'
<1> USE PackAssumption
<1>1. TrickTypeOK'
  BY DEF TrickInv, TrickTypeOK, Put
<1>2. HandsArePut'
  BY DEF TrickInv, TrickTypeOK, HandsArePut, Put
<1>3. TrickMonotone'
  <2> SUFFICES ASSUME \A p \in DOMAIN ba' : Cardinality(ba'[p]) < RevolutionSize,
                      NEW p \in DOMAIN ba', NEW j \in DOMAIN ba', p < j
               PROVE  /\ canPut(Rule, revolution', ba'[j], ba'[p]) = OK
                      /\ canPut(Rule, revolution', ba'[p], ba'[j]) # OK
    BY DEF TrickMonotone
  <2>1. /\ ba \in Seq(SUBSET Pack) /\ ba' = Append(ba, cards)
        /\ cards \in CardSets /\ cards # {} /\ revolution \in BOOLEAN
    BY DEF TrickInv, TrickTypeOK, Put, CardSets
  <2>2. Cardinality(cards) < RevolutionSize
    <3>1. Len(ba) + 1 \in DOMAIN ba' /\ ba'[Len(ba) + 1] = cards
      BY <2>1
    <3> QED BY <3>1
  <2>3. revolution' = revolution
    <3>1. (Cardinality(cards) >= RevolutionSize) = FALSE
      <4>1. Cardinality(cards) \in Nat
        BY <2>1, CardSetFinite
      <4> QED BY <2>2, <4>1 DEF RevolutionSize
    <3>2. revolution' = (revolution # (Cardinality(cards) >= RevolutionSize))
      BY DEF Put
    <3> QED BY <2>1, <3>1, <3>2
  <2>4. \A k \in DOMAIN ba : /\ k \in 1 .. Len(ba) /\ ba'[k] = ba[k] /\ k \in DOMAIN ba'
                             /\ ba[k] \in CardSets /\ ba[k] # {}
    BY <2>1 DEF TrickInv, HandsArePut, CardSets
  <2>5. \A k, l \in DOMAIN ba : k < l => /\ canPutA(revolution, ba[l], ba[k]) = OK
                                         /\ canPutA(revolution, ba[k], ba[l]) # OK
    <3>1. \A k \in DOMAIN ba : Cardinality(ba[k]) < RevolutionSize
      BY <2>4
    <3> QED BY <3>1, <2>4, CanPutIsA DEF TrickInv, TrickMonotone
  <2>6. CASE j \in DOMAIN ba
    <3>1. p \in DOMAIN ba
      BY <2>1, <2>6
    <3> QED BY <3>1, <2>3, <2>4, <2>5, <2>6, CanPutIsA
  <2>7. CASE j \notin DOMAIN ba
    <3>1. j = Len(ba) + 1 /\ ba'[j] = cards /\ p \in DOMAIN ba /\ Len(ba) \in DOMAIN ba
          /\ p <= Len(ba) /\ ba # <<>>
      BY <2>1, <2>7
    <3>2. canPutA(revolution, cards, ba[Len(ba)]) = OK
      <4>1. canPut(Rule, revolution, cards, ba[Len(ba)]) = OK
        BY <3>1 DEF Put, baLast
      <4> QED BY <4>1, <2>1, <2>4, <3>1, CanPutIsA
    <3>3. canPutA(revolution, cards, ba[p]) = OK
      <4>1. CASE p = Len(ba)
        BY <4>1, <3>2
      <4>2. CASE p < Len(ba)
        <5>1. canPutA(revolution, ba[Len(ba)], ba[p]) = OK
          BY <4>2, <3>1, <2>5
        <5> QED BY <5>1, <3>1, <3>2, <2>1, <2>4, PutOrder
      <4> QED BY <4>1, <4>2, <3>1, <2>1
    <3>4. canPutA(revolution, ba[p], cards) # OK
      BY <3>3, <3>1, <2>1, <2>4, PutOrder
    <3> QED BY <3>1, <3>3, <3>4, <2>1, <2>3, <2>4, CanPutIsA
  <2> QED BY <2>6, <2>7
<1> QED BY <1>1, <1>2, <1>3 DEF TrickInv

LEMMA TrickInvClear ==
  ASSUME TrickInv, Clear
  PROVE  TrickInv'
<1>1. ba' = <<>> /\ DOMAIN ba' = {} /\ rest' = rest /\ revolution' = revolution
  BY DEF Clear
<1> QED BY <1>1 DEF TrickInv, TrickTypeOK, HandsArePut, TrickMonotone

LEMMA TrickInvNext == TrickInv /\ [TrickNext]_trickVars => TrickInv'
<1> SUFFICES ASSUME TrickInv, [TrickNext]_trickVars PROVE TrickInv'
  OBVIOUS
<1>1. CASE UNCHANGED trickVars
  BY <1>1 DEF trickVars, TrickInv, TrickTypeOK, HandsArePut, TrickMonotone
<1> QED BY <1>1, TrickInvPut, TrickInvClear DEF TrickNext

(* Whatever the cards in play and the rule, the hands of a trick are ordered *)
(* by canPut, every later one above every earlier one.                       *)
THEOREM TrickOrdered == TrickSpec => []TrickMonotone
<1>1. TrickInv => TrickMonotone
  BY DEF TrickInv
<1> QED BY <1>1, TrickInvInit, TrickInvNext, PTL DEF TrickSpec

(* Whatever is on the field, its hands cross the JSON messages unchanged. *)
THEOREM CodecKeepsHands == TrickSpec => []CodecRoundTrip
<1>1. TrickInv => CodecRoundTrip
  <2> SUFFICES ASSUME TrickInv, NEW p \in DOMAIN ba
               PROVE  CardSetFromString(CardSetToString(ba[p])) = ba[p]
    BY DEF CodecRoundTrip
  <2>1. ba[p] \in CardSets
    BY PackAssumption DEF TrickInv, TrickTypeOK, CardSets
  <2> QED BY <2>1, CardSetCodec
<1> QED BY <1>1, TrickInvInit, TrickInvNext, PTL DEF TrickSpec

---------------------------------------------------------------------------
(* The sorted hand *)

(* The sorted hand lists the player's cards and nothing else, in the order of the indices,  *)
(* which a revolution turns round.                                                          *)
LEMMA TefudaCards ==
  ASSUME TypeOK
  PROVE  /\ deck \in CardSets
         /\ DOMAIN tefuda = 1 .. Cardinality(deck)
         /\ \A j \in 1 .. Cardinality(deck) : tefuda[j] \in deck
         /\ \A c \in deck : \E j \in 1 .. Cardinality(deck) : tefuda[j] = c
         /\ \A j, k \in 1 .. Cardinality(deck) :
              j < k => IF kakumei THEN tefuda[k] < tefuda[j] ELSE tefuda[j] < tefuda[k]
<1> DEFINE v == conv2Vector(deck)
           N == Cardinality(deck)
<1>1. deck \in CardSets /\ N \in Nat
  BY UniverseAssumption, CardSetFinite DEF TypeOK, CardSets
<1>2. /\ DOMAIN v = 1 .. N /\ \A j \in 1 .. N : v[j] \in deck
      /\ \A j, k \in 1 .. N : j < k => v[j] < v[k]
      /\ \A c \in deck : \E j \in 1 .. N : v[j] = c
  BY <1>1, VectorSorted
<1>3. Len(v) = N
  <2>1. v \in Seq(deck)
    BY <1>1, <1>2 DEF conv2Vector
  <2> QED BY <1>1, <1>2, <2>1
<1> HIDE DEF v, N
<1>4. /\ DOMAIN Reverse(v) = 1 .. N
      /\ \A j \in 1 .. N : Reverse(v)[j] = v[(N + 1) - j]
  BY <1>2, <1>3 DEF Reverse
<1>5. \A j \in 1 .. N : (N + 1) - j \in 1 .. N /\ (N + 1) - ((N + 1) - j) = j
  BY <1>1
<1>6. tefuda = IF kakumei THEN Reverse(v) ELSE v
  BY DEF tefuda, v
<1>7. /\ DOMAIN tefuda = 1 .. N
      /\ \A j \in 1 .. N : tefuda[j] = IF kakumei THEN v[(N + 1) - j] ELSE v[j]
  BY <1>2, <1>4, <1>6
<1>8. \A j \in 1 .. N : tefuda[j] \in deck
  BY <1>2, <1>5, <1>7
<1>9. ASSUME NEW c \in deck PROVE \E j \in 1 .. N : tefuda[j] = c
  <2>1. PICK j \in 1 .. N : v[j] = c
    BY <1>2
  <2>2. CASE kakumei
    <3>1. (N + 1) - j \in 1 .. N /\ tefuda[(N + 1) - j] = v[j]
      BY <2>2, <1>5, <1>7
    <3> QED BY <2>1, <3>1
  <2>3. CASE ~kakumei
    BY <2>1, <2>3, <1>7
  <2> QED BY <2>2, <2>3
<1>10. ASSUME NEW j \in 1 .. N, NEW k \in 1 .. N, j < k
       PROVE  IF kakumei THEN tefuda[k] < tefuda[j] ELSE tefuda[j] < tefuda[k]
  <2>1. (N + 1) - k < (N + 1) - j /\ (N + 1) - k \in 1 .. N /\ (N + 1) - j \in 1 .. N
    BY <1>1, <1>10
  <2>2. v[(N + 1) - k] < v[(N + 1) - j]
    BY <2>1, <1>2
  <2>3. v[j] < v[k]
    BY <1>2, <1>10
  <2> QED BY <2>2, <2>3, <1>7
<1> QED BY <1>1, <1>7, <1>8, <1>9, <1>10 DEF N

---------------------------------------------------------------------------
(* The bounds of the loop *)

(* A set of cards has at most 53 members, and the type of n follows. *)
LEMMA DeckSize ==
  ASSUME TypeOK
  PROVE  /\ Cardinality(deck) \in 0 .. 53
         /\ n \in Nat /\ n >= 1
         /\ deck # {} => Cardinality(deck) >= 1
<1>1. deck \in CardSets /\ ba_last \in CardSets
  BY UniverseAssumption DEF TypeOK, CardSets
<1>2. /\ Cardinality(deck) \in Nat /\ Cardinality(ba_last) \in Nat
      /\ IsFiniteSet(deck) /\ IsFiniteSet(ba_last)
  BY <1>1, CardSetFinite
<1>3. IsFiniteSet(CardIds) /\ Cardinality(CardIds) = 53
  <2> DEFINE a == 0
             b == 52
  <2>0. a \in Int /\ b \in Int
    OBVIOUS
  <2> HIDE DEF a, b
  <2>1. /\ IsFiniteSet(a .. b)
        /\ Cardinality(a .. b) = IF a > b THEN 0 ELSE b - a + 1
    BY <2>0, FS_Interval
  <2> QED BY <2>1 DEF CardIds, a, b
<1>4. Cardinality(deck) <= 53
  <2>1. deck \subseteq CardIds
    BY <1>1 DEF CardSets
  <2> QED BY <2>1, <1>3, FS_Subset
<1>5. /\ deck # {} => Cardinality(deck) # 0
      /\ ba_last # {} => Cardinality(ba_last) # 0
  BY <1>2, FS_EmptySet
<1> QED BY <1>2, <1>4, <1>5 DEF n

(* Unless it wraps, the bound of the loop is the number of windows. *)
LEMMA LimitInBounds ==
  ASSUME TypeOK, InBounds
  PROVE  Limit = Cardinality(deck) - (n - 1)
<1> DEFINE x == Cardinality(deck) - (n - 1)
<1>1. x \in 0 .. 53
  BY DeckSize DEF InBounds
<1>2. SizeModulus \in Nat /\ x < SizeModulus
  BY <1>1, SizeAssumption
<1> HIDE DEF x
<1>3. x % SizeModulus = x
  BY <1>1, <1>2
<1> QED BY <1>3 DEF Limit, x

(* Every window the loop then looks at lies within the vector. *)
LEMMA WindowInBounds ==
  ASSUME TypeOK, InBounds, i < Limit, NEW garbage \in SUBSET Universe,
         Cardinality(garbage) <= Overrun
  PROVE  i + n <= Cardinality(deck) /\ garbage = {}
<1>1. i + n <= Cardinality(deck)
  BY LimitInBounds, DeckSize DEF TypeOK
<1>2. Overrun = 0
  BY <1>1 DEF Overrun
<1>3. garbage \in CardSets
  BY UniverseAssumption DEF CardSets
<1>4. Cardinality(garbage) = 0 /\ IsFiniteSet(garbage)
  BY <1>2, <1>3, CardSetFinite
<1> QED BY <1>1, <1>4, FS_EmptySet

LEMMA WindowCards ==
  ASSUME TypeOK
  PROVE  Window \subseteq deck
BY TefudaCards DEF Window

(* A player that leads is allowed the first card it tries. *)
LEMMA LeadAllowed ==
  ASSUME TypeOK, ba_last = {}, deck # {}, i = 0,
         NEW garbage \in SUBSET Universe, Cardinality(garbage) <= Overrun
  PROVE  /\ 0 < Limit
         /\ Window \cup garbage # {}
         /\ canPut(rule, kakumei, Window \cup garbage, ba_last) = OK
<1>1. n = 1 /\ Cardinality(deck) >= 1 /\ Cardinality(deck) \in Nat
  BY DeckSize DEF n
<1>2. InBounds
  BY <1>1 DEF InBounds
<1>3. 0 < Limit
  BY <1>1, <1>2, LimitInBounds
<1>4. garbage = {}
  BY <1>2, <1>3, WindowInBounds
<1>5. Window = {tefuda[1]}
  <2>1. (i + 1 .. i + n) \cap DOMAIN tefuda = {1}
    BY <1>1, TefudaCards
  <2> QED BY <2>1 DEF Window
<1>6. HasFirstCard(Window)
  BY <1>5 DEF HasFirstCard, WithoutJoker
<1>7. canPutA(kakumei, Window, ba_last) = OK
  BY <1>6 DEF canPutA
<1>8. canPut(rule, kakumei, Window, ba_last) = OK
  BY <1>7 DEF canPut, canPutB
<1> QED BY <1>3, <1>4, <1>5, <1>8

---------------------------------------------------------------------------
(* The inductive invariant *)

(* A player is asked only while it has cards, and one that leads never leaves *)
(* the first iteration of the loop.                                        *)
AskedWithCards == pc = "think" => deck # {}
LeadAtStart == pc = "think" /\ ba_last = {} => i = 0

PoorInv == TypeOK /\ AskedWithCards /\ LeadAtStart /\ PutIsLegal /\ LeaderPuts

LEMMA PoorInit == Init => PoorInv
<1> SUFFICES ASSUME Init PROVE PoorInv
  OBVIOUS
<1>1. TypeOK
  BY DEF Init, TypeOK, CardSets
<1> QED BY <1>1
     DEF Init, PoorInv, AskedWithCards, LeadAtStart, PutIsLegal, LeaderPuts

LEMMA PoorStep == PoorInv /\ [Next]_vars => PoorInv'
<1> SUFFICES ASSUME PoorInv, [Next]_vars PROVE PoorInv'
  OBVIOUS
<1> USE DEF PoorInv
<1>1. ASSUME NEW field \in SUBSET Universe, NEW kak \in BOOLEAN,
             ProcessTurn(field, kak)
      PROVE  PoorInv'
  BY <1>1 DEF ProcessTurn, TypeOK, CardSets, AskedWithCards, LeadAtStart,
              PutIsLegal, LeaderPuts
<1>2. ASSUME NEW garbage \in SUBSET Universe, Try(garbage)
      PROVE  PoorInv'
  <2> DEFINE cards == Window \cup garbage
  <2>1. cards \in CardSets
    BY WindowCards, UniverseAssumption DEF TypeOK, CardSets
  <2>2. /\ pc = "think" /\ i < Limit /\ deck # {}
        /\ Cardinality(garbage) <= Overrun
        /\ UNCHANGED <<rule, deck, ba_last, kakumei>>
        /\ i \in Nat /\ rule_kakumei' \in BOOLEAN
    BY <1>2 DEF Try, Return, AskedWithCards, TypeOK, SetKakumei
  <2>3. CASE Allowed(cards) /\ Return(cards)
    <3> HIDE DEF cards
    <3>1. TypeOK'
      BY <2>1, <2>2, <2>3 DEF TypeOK, Return
    <3>2. InBounds => cards \subseteq deck
      BY <2>2, WindowInBounds, WindowCards DEF cards
    <3>3. PutIsLegal'
      BY <2>2, <2>3, <3>2 DEF PutIsLegal, Return, InBounds, n, Allowed, SetKakumei
    <3>4. ba_last = {} => cards # {}
      BY <2>2, LeadAllowed DEF LeadAtStart, cards
    <3>5. LeaderPuts'
      BY <2>2, <2>3, <3>4 DEF LeaderPuts, Return
    <3> QED BY <2>3, <3>1, <3>3, <3>5 DEF Return, AskedWithCards, LeadAtStart
  <2>4. CASE ~Allowed(cards) /\ Advance
             /\ UNCHANGED <<rule, deck, ba_last, kakumei, pc, hand>>
    <3>1. ba_last # {}
      BY <2>2, <2>4, LeadAllowed DEF LeadAtStart, Allowed, SetKakumei
    <3> QED BY <2>2, <2>4, <3>1
         DEF Advance, TypeOK, AskedWithCards, LeadAtStart, PutIsLegal, LeaderPuts
  <2> QED BY <1>2, <2>3, <2>4 DEF Try
<1>3. ASSUME Fault PROVE PoorInv'
  BY <1>3 DEF Fault, TypeOK, AskedWithCards, LeadAtStart, PutIsLegal, LeaderPuts
<1>4. ASSUME Pass PROVE PoorInv'
  <2>1. /\ pc = "think" /\ ~(i < Limit) /\ hand' = {} /\ pc' = "reply"
        /\ UNCHANGED <<rule, deck, ba_last, kakumei, rule_kakumei, i>>
    BY <1>4 DEF Pass, Return
  <2>2. ba_last # {}
    <3>1. Cardinality({}) <= Overrun
      BY DeckSize, FS_EmptySet DEF Overrun, TypeOK
    <3>2. {} \in SUBSET Universe
      OBVIOUS
    <3> QED BY <2>1, <3>1, <3>2, LeadAllowed DEF AskedWithCards, LeadAtStart
  <2>3. canPut(rule, kakumei, {}, ba_last) = OK
    BY DEF canPut, canPutA, canPutB
  <2> QED BY <2>1, <2>2, <2>3
       DEF TypeOK, CardSets, AskedWithCards, LeadAtStart, PutIsLegal, LeaderPuts
<1>5. ASSUME PutDone PROVE PoorInv'
  BY <1>5 DEF PutDone, TypeOK, AskedWithCards, LeadAtStart, PutIsLegal, LeaderPuts
<1>6. ASSUME UNCHANGED vars PROVE PoorInv'
  BY <1>6 DEF vars, TypeOK, AskedWithCards, LeadAtStart, PutIsLegal, LeaderPuts,
              InBounds, n
<1> QED BY <1>1, <1>2, <1>3, <1>4, <1>5, <1>6 DEF Next

(* think(): for every deck and field, every hand returned while the loop bound *)
(* does not wrap is made of the player's own cards and allowed by the rule. *)
THEOREM PoorPutsLegal == Spec => []PutIsLegal
<1>1. PoorInv => PutIsLegal
  BY DEF PoorInv
<1> QED BY <1>1, PoorInit, PoorStep, PTL DEF Spec

(* think(): a player that leads never passes, so that a trick always starts. *)
THEOREM PoorLeaderPuts == Spec => []LeaderPuts
<1>1. PoorInv => LeaderPuts
  BY DEF PoorInv
<1> QED BY <1>1, PoorInit, PoorStep, PTL DEF Spec

(* The variables of think() keep their types: the sorted vector and the cards  *)
(* read past its end are cards.                                            *)
THEOREM PoorTypes == Spec => []TypeOK
<1>1. PoorInv => TypeOK
  BY DEF PoorInv
<1> QED BY <1>1, PoorInit, PoorStep, PTL DEF Spec

---------------------------------------------------------------------------
(* What the search has excluded *)

(* The neighbours that iteration k tries. *)
WindowAt(k) == {tefuda[j] : j \in (k + 1 .. k + n) \cap DOMAIN tefuda}

Asked == pc \in {"think", "reply"}

(* For single cards and pairs: what was tried before i was refused, ... *)
TriedInVain == Asked /\ n <= 2 => \A k \in 0 .. i - 1 : ~Allowed(WindowAt(k))

(* ... and the answer is the window at i, or a pass after the last one. *)
AnswerIsWindow ==
  pc = "reply" /\ n <= 2 =>
    IF hand = {} THEN i >= Cardinality(deck) - (n - 1)
                 ELSE i + n <= Cardinality(deck) /\ hand = WindowAt(i)

SearchInv == /\ PoorInv
             /\ Asked => deck # {}
             /\ TriedInVain
             /\ AnswerIsWindow

LEMMA WindowIsAt == Window = WindowAt(i)
BY DEF Window, WindowAt

(* A single card or a pair is asked of a player that has cards: the bound does not wrap. *)
LEMMA SmallInBounds ==
  ASSUME TypeOK, deck # {}, n <= 2
  PROVE  InBounds /\ Limit = Cardinality(deck) - (n - 1) /\ n \in {1, 2}
<1>1. InBounds /\ n \in {1, 2}
  BY DeckSize DEF InBounds
<1> QED BY <1>1, LimitInBounds

(* The windows of one and of two cards. *)
LEMMA SmallWindows ==
  ASSUME TypeOK, NEW k \in Nat, k + n <= Cardinality(deck)
  PROVE  /\ WindowAt(k) # {} /\ WindowAt(k) \subseteq deck
         /\ n = 1 => WindowAt(k) = {tefuda[k + 1]}
         /\ n = 2 => WindowAt(k) = {tefuda[k + 1], tefuda[k + 2]}
<1>1. n \in Nat /\ n >= 1 /\ Cardinality(deck) \in Nat /\ DOMAIN tefuda = 1 .. Cardinality(deck)
  <2>1. n \in Nat /\ n >= 1 /\ Cardinality(deck) \in Nat
    BY DeckSize
  <2> QED BY <2>1, TefudaCards
<1>2. (k + 1 .. k + n) \cap DOMAIN tefuda = k + 1 .. k + n
  BY <1>1
<1>3. k + 1 \in k + 1 .. k + n
  BY <1>1
<1>4. WindowAt(k) # {} /\ WindowAt(k) \subseteq deck
  <2>1. tefuda[k + 1] \in WindowAt(k)
    BY <1>2, <1>3 DEF WindowAt
  <2>2. WindowAt(k) \subseteq deck
    BY <1>1, TefudaCards DEF WindowAt
  <2> QED BY <2>1, <2>2
<1>5. ASSUME n = 1 PROVE WindowAt(k) = {tefuda[k + 1]}
  <2>1. k + 1 .. k + n = {k + 1}
    BY <1>5
  <2> QED BY <1>2, <2>1 DEF WindowAt
<1>6. ASSUME n = 2 PROVE WindowAt(k) = {tefuda[k + 1], tefuda[k + 2]}
  <2>1. k + 1 .. k + n = {k + 1, k + 2}
    BY <1>6
  <2> QED BY <1>2, <2>1 DEF WindowAt
<1> QED BY <1>4, <1>5, <1>6

LEMMA SearchInit == Init => SearchInv
<1> SUFFICES ASSUME Init PROVE SearchInv
  OBVIOUS
<1>1. PoorInv
  BY PoorInit
<1> QED BY <1>1 DEF Init, SearchInv, Asked, TriedInVain, AnswerIsWindow

LEMMA SearchStep == SearchInv /\ [Next]_vars => SearchInv'
<1> SUFFICES ASSUME SearchInv, [Next]_vars PROVE SearchInv'
  OBVIOUS
<1>0. PoorInv /\ PoorInv' /\ TypeOK
  BY PoorStep DEF SearchInv, PoorInv
<1>1. ASSUME NEW field \in SUBSET Universe, NEW kak \in BOOLEAN, ProcessTurn(field, kak)
      PROVE  SearchInv'
  <2>1. pc' = "think" /\ i' = 0 /\ deck' = deck /\ deck # {}
    BY <1>1 DEF ProcessTurn
  <2>2. TriedInVain'
    BY <2>1 DEF TriedInVain
  <2> QED BY <1>0, <2>1, <2>2 DEF SearchInv, AnswerIsWindow
<1>2. ASSUME NEW garbage \in SUBSET Universe, Try(garbage)
      PROVE  SearchInv'
  <2> DEFINE cards == Window \cup garbage
  <2>1. /\ pc = "think" /\ i < Limit /\ i \in Nat /\ Cardinality(garbage) <= Overrun
        /\ UNCHANGED <<rule, deck, ba_last, kakumei>> /\ deck # {}
    BY <1>2, <1>0 DEF Try, Return, TypeOK, SearchInv, Asked
  <2>2. /\ n' = n /\ tefuda' = tefuda
        /\ \A k : WindowAt(k)' = WindowAt(k) /\ \A c : Allowed(c)' = Allowed(c)
    BY <2>1 DEF n, tefuda, WindowAt, Allowed, SetKakumei
  <2>3. ASSUME n <= 2
        PROVE  /\ cards = WindowAt(i) /\ i + n <= Cardinality(deck) /\ cards # {}
               /\ \A k \in 0 .. i - 1 : ~Allowed(WindowAt(k))
    <3>1. InBounds
      BY <1>0, <2>1, <2>3, SmallInBounds
    <3>2. i + n <= Cardinality(deck) /\ garbage = {}
      BY <1>0, <2>1, <3>1, WindowInBounds
    <3>3. WindowAt(i) # {}
      BY <1>0, <2>1, <3>2, SmallWindows
    <3>4. \A k \in 0 .. i - 1 : ~Allowed(WindowAt(k))
      BY <2>1, <2>3 DEF SearchInv, TriedInVain, Asked
    <3> QED BY <3>2, <3>3, <3>4, WindowIsAt
  <2> HIDE DEF cards
  <2>4. CASE Allowed(cards) /\ Return(cards)
    <3>1. hand' = cards /\ pc' = "reply" /\ i' = i
      BY <2>4 DEF Return
    <3>2. TriedInVain'
      BY <2>2, <2>3, <3>1 DEF TriedInVain
    <3>3. AnswerIsWindow'
      BY <2>1, <2>2, <2>3, <3>1 DEF AnswerIsWindow
    <3> QED BY <1>0, <2>1, <3>2, <3>3 DEF SearchInv
  <2>5. CASE ~Allowed(cards) /\ Advance /\ UNCHANGED <<rule, deck, ba_last, kakumei, pc, hand>>
    <3>1. i' = i + 1 /\ pc' = "think"
      BY <2>1, <2>5 DEF Advance
    <3>2. TriedInVain'
      <4> SUFFICES ASSUME n <= 2, NEW k \in 0 .. i PROVE ~Allowed(WindowAt(k))
        BY <2>1, <2>2, <3>1 DEF TriedInVain
      <4>1. k = i \/ k \in 0 .. i - 1
        BY <2>1
      <4> QED BY <4>1, <2>3, <2>5
    <3> QED BY <1>0, <2>1, <3>1, <3>2 DEF SearchInv, AnswerIsWindow
  <2> QED BY <1>2, <2>4, <2>5 DEF Try, cards
<1>3. ASSUME Fault PROVE SearchInv'
  BY <1>0, <1>3 DEF Fault, SearchInv, Asked, TriedInVain, AnswerIsWindow
<1>4. ASSUME Pass PROVE SearchInv'
  <2>1. /\ pc = "think" /\ ~(i < Limit) /\ hand' = {} /\ pc' = "reply"
        /\ UNCHANGED <<rule, deck, ba_last, kakumei, i>> /\ deck # {} /\ i \in Nat
    BY <1>0, <1>4 DEF Pass, Return, SearchInv, Asked, TypeOK
  <2>2. /\ n' = n /\ tefuda' = tefuda
        /\ \A k : WindowAt(k)' = WindowAt(k) /\ \A c : Allowed(c)' = Allowed(c)
    BY <2>1 DEF n, tefuda, WindowAt, Allowed, SetKakumei
  <2>3. n <= 2 => i >= Cardinality(deck) - (n - 1)
    BY <1>0, <2>1, SmallInBounds, DeckSize
  <2>4. TriedInVain'
    BY <2>1, <2>2 DEF SearchInv, TriedInVain, Asked
  <2>5. AnswerIsWindow'
    BY <2>1, <2>2, <2>3 DEF AnswerIsWindow
  <2> QED BY <1>0, <2>1, <2>4, <2>5 DEF SearchInv
<1>5. ASSUME PutDone PROVE SearchInv'
  BY <1>0, <1>5 DEF PutDone, SearchInv, Asked, TriedInVain, AnswerIsWindow
<1>6. ASSUME UNCHANGED vars PROVE SearchInv'
  <2>1. /\ n' = n /\ tefuda' = tefuda
        /\ \A k : WindowAt(k)' = WindowAt(k) /\ \A c : Allowed(c)' = Allowed(c)
    BY <1>6 DEF vars, n, tefuda, WindowAt, Allowed, SetKakumei
  <2> QED BY <1>0, <1>6, <2>1 DEF vars, SearchInv, Asked, TriedInVain, AnswerIsWindow
<1> QED BY <1>1, <1>2, <1>3, <1>4, <1>5, <1>6 DEF Next

LEMMA SearchInvariant == Spec => []SearchInv
BY SearchInit, SearchStep, PTL DEF Spec

(* think(): a single card that is put is the weakest of those that could have been, for every *)
(* hand and field; in a revolution, for a hand without the joker.                             *)
THEOREM PoorPutsWeakest == Spec => []WeakestSingle
<1>1. SearchInv => WeakestSingle
  <2> SUFFICES ASSUME SearchInv, pc = "reply", hand # {}, n = 1, kakumei => JOKER \notin deck,
                      NEW cards \in LegalHands, Cardinality(cards) = 1
               PROVE  compareCards(kakumei, FirstCard(hand), FirstCard(cards)) >= 0
    BY DEF WeakestSingle
  <2> DEFINE N == Cardinality(deck)
  <2>1. TypeOK /\ i \in Nat /\ kakumei \in BOOLEAN /\ N \in Nat
    BY DeckSize DEF SearchInv, PoorInv, TypeOK
  <2>2. i + n <= N /\ hand = WindowAt(i)
    BY DEF SearchInv, AnswerIsWindow
  <2>3. hand = {tefuda[i + 1]} /\ i + 1 \in 1 .. N
    BY <2>1, <2>2, SmallWindows
  <2>4. cards \subseteq deck /\ Allowed(cards) /\ deck \in CardSets
    BY <2>1, TefudaCards DEF LegalHands, Allowed, SetKakumei
  <2>5. PICK c : cards = {c}
    <3>1. IsFiniteSet(cards)
      BY <2>4, CardSetFinite DEF CardSets
    <3> QED BY <3>1, FS_Singleton
  <2>6. PICK m \in 1 .. N : tefuda[m] = c
    BY <2>1, <2>4, <2>5, TefudaCards
  <2>7. ~(m < i + 1)
    <3> SUFFICES ASSUME m < i + 1 PROVE FALSE
      OBVIOUS
    <3>1. m - 1 \in 0 .. i - 1 /\ m - 1 \in Nat /\ (m - 1) + n <= N /\ (m - 1) + 1 = m
      BY <2>1, <2>2
    <3>2. ~Allowed(WindowAt(m - 1))
      BY <3>1 DEF SearchInv, TriedInVain, Asked
    <3>3. WindowAt(m - 1) = {tefuda[m]}
      BY <2>1, <3>1, SmallWindows
    <3> QED BY <3>2, <3>3, <2>4, <2>5, <2>6
  <2>8. tefuda[i + 1] \in deck /\ c \in deck /\ tefuda[i + 1] \in CardIds /\ c \in CardIds
    BY <2>1, <2>3, <2>4, <2>5, TefudaCards DEF CardSets
  <2>9. FirstCard(hand) = tefuda[i + 1] /\ FirstCard(cards) = c
    BY <2>3, <2>5, <2>8, SingleCard DEF FirstCard
  <2>10. IF kakumei THEN c <= tefuda[i + 1] /\ tefuda[i + 1] # JOKER ELSE tefuda[i + 1] <= c
    <3>1. CASE m = i + 1
      BY <3>1, <2>6, <2>8 DEF CardIds
    <3>2. CASE i + 1 < m
      <4>1. IF kakumei THEN tefuda[m] < tefuda[i + 1] ELSE tefuda[i + 1] < tefuda[m]
        BY <3>2, <2>1, <2>3, <2>6, TefudaCards
      <4> QED BY <4>1, <2>6, <2>8 DEF CardIds
    <3> QED BY <3>1, <3>2, <2>1, <2>7
  <2> QED BY <2>1, <2>8, <2>9, <2>10, CompareLater
<1> QED BY <1>1, SearchInvariant, PTL

(* Two cards of the player that may be put on the field as a pair: then two neighbours of the   *)
(* sorted hand may be put too, since the pair's lower card has a neighbour of its row, or the    *)
(* joker ends the hand and its neighbour is at least as strong.                                 *)
LEMMA PairHasNeighbours ==
  ASSUME TypeOK, ~kakumei, ba_last # {}, n = 2,
         NEW a \in deck, NEW b \in deck, a < b, Allowed({a, b})
  PROVE  \E k \in Nat : k + 2 <= Cardinality(deck) /\ Allowed(WindowAt(k))
<1> DEFINE N == Cardinality(deck)
           lo == Min(ba_last)
<1>1. /\ N \in Nat /\ deck \in CardSets /\ deck \subseteq CardIds /\ ba_last \in CardSets
      /\ a \in CardIds /\ b \in CardIds /\ kakumei = FALSE
  <2>1. N \in Nat
    BY DeckSize
  <2> QED BY <2>1, UniverseAssumption DEF TypeOK, CardSets
<1>2. lo \in CardIds
  BY <1>1, MinExists DEF CardSets
<1>3. ASSUME NEW x \in deck, NEW y \in deck, x < y
      PROVE  Allowed({x, y}) <=> /\ y = JOKER \/ x \div 4 = y \div 4
                                 /\ HasFirstCard(ba_last) /\ Cardinality(ba_last) = 2
                                 /\ lo # JOKER
                                 /\ x = JOKER \/ lo \div 4 < x \div 4
  <2>1. x \in CardIds /\ y \in CardIds
    BY <1>1
  <2>2. /\ {x, y} \in CardSets /\ Min({x, y}) = x /\ Cardinality({x, y}) = 2
        /\ HasFirstCard({x, y}) <=> (y = JOKER \/ x \div 4 = y \div 4)
    BY <2>1, <1>3, PairOfCards
  <2>3. Allowed({x, y}) <=> canPutA(FALSE, {x, y}, ba_last) = OK
    BY <1>1, <2>2, RuleBIsRuleA DEF Allowed, SetKakumei, canPut
  <2>4. canPutA(FALSE, {x, y}, ba_last) = OK <=>
          /\ HasFirstCard({x, y}) /\ HasFirstCard(ba_last)
          /\ Cardinality({x, y}) = Cardinality(ba_last)
          /\ compareCards(FALSE, lo, Min({x, y})) > 0
    BY <1>1, <2>2, PutOnHand
  <2>5. compareCards(FALSE, lo, x) > 0 <=> lo # JOKER /\ (x = JOKER \/ lo \div 4 < x \div 4)
    BY <1>2, <2>1, CompareRows
  <2> QED BY <2>2, <2>3, <2>4, <2>5
<1>4. PICK m \in 1 .. N : tefuda[m] = a
  BY TefudaCards
<1>5. PICK m2 \in 1 .. N : tefuda[m2] = b
  BY TefudaCards
<1>6. \A j \in 1 .. N : tefuda[j] \in deck
  BY TefudaCards
<1>7. \A j, k \in 1 .. N : j < k => tefuda[j] < tefuda[k]
  <2>1. \A j, k \in 1 .. N :
          j < k => IF kakumei THEN tefuda[k] < tefuda[j] ELSE tefuda[j] < tefuda[k]
    BY TefudaCards
  <2> QED BY <2>1
<1>8. \A j \in 1 .. N : tefuda[j] \in Int
  <2>1. deck \subseteq Int
    BY <1>1 DEF CardIds
  <2> QED BY <1>6, <2>1, Zenon
<1>9. a \in Int /\ b \in Int
  BY <1>1 DEF CardIds
<1>10. m < m2
  BY <1>4, <1>5, <1>7, <1>9, <1>1
<1>11. /\ b = JOKER \/ a \div 4 = b \div 4
       /\ HasFirstCard(ba_last) /\ Cardinality(ba_last) = 2
       /\ lo # JOKER /\ lo \div 4 < a \div 4
  <2>1. a # JOKER
    BY <1>1, <1>9 DEF CardIds, JOKER
  <2> QED BY <1>3, <2>1
<1>12. ASSUME NEW k \in Nat, k + 2 <= N
       PROVE  WindowAt(k) = {tefuda[k + 1], tefuda[k + 2]}
  BY <1>12, SmallWindows
<1> HIDE DEF N, lo
<1>13. CASE b = JOKER
  <2> DEFINE k == m2 - 2
  <2>1. k \in Nat /\ k + 2 = m2 /\ k + 1 \in 1 .. N /\ k + 1 < m2 /\ m <= k + 1
    BY <1>1, <1>10
  <2> HIDE DEF k
  <2>2. a <= tefuda[k + 1] /\ tefuda[k + 1] < b
    <3>1. CASE m = k + 1
      BY <3>1, <1>4, <1>9
    <3>2. CASE m < k + 1
      BY <3>2, <2>1, <1>4, <1>5, <1>7, <1>8, <1>9
    <3> QED BY <3>1, <3>2, <2>1
  <2>3. tefuda[k + 1] \in deck /\ tefuda[k + 1] \in Int
    BY <2>1, <1>6, <1>8
  <2>4. lo \div 4 < tefuda[k + 1] \div 4
    <3>1. a \div 4 <= tefuda[k + 1] \div 4
      BY <2>2, <2>3, <1>9
    <3>2. lo \in Int
      BY <1>2 DEF CardIds
    <3> QED BY <3>1, <3>2, <2>3, <1>9, <1>11
  <2>5. Allowed({tefuda[k + 1], b})
    BY <2>2, <2>3, <2>4, <1>3, <1>11, <1>13
  <2>6. WindowAt(k) = {tefuda[k + 1], b}
    BY <2>1, <1>5, <1>12
  <2> QED BY <2>1, <2>5, <2>6 DEF N
<1>14. CASE a \div 4 = b \div 4
  <2> DEFINE k == m - 1
  <2>1. k \in Nat /\ k + 1 = m /\ k + 2 \in 1 .. N /\ m < k + 2 /\ k + 2 <= m2 /\ k + 2 <= N
    BY <1>1, <1>10
  <2> HIDE DEF k
  <2>2. a < tefuda[k + 2] /\ tefuda[k + 2] <= b
    <3>1. CASE m2 = k + 2
      BY <3>1, <1>5, <1>9
    <3>2. CASE k + 2 < m2
      BY <3>2, <2>1, <1>4, <1>5, <1>7, <1>8, <1>9
    <3> QED BY <3>1, <3>2, <2>1
  <2>3. tefuda[k + 2] \in deck /\ tefuda[k + 2] \in Int
    BY <2>1, <1>6, <1>8
  <2>4. a \div 4 = tefuda[k + 2] \div 4
    BY <2>2, <2>3, <1>9, <1>14
  <2>5. Allowed({a, tefuda[k + 2]})
    BY <2>2, <2>3, <2>4, <1>3, <1>11
  <2>6. WindowAt(k) = {a, tefuda[k + 2]}
    BY <2>1, <1>4, <1>12
  <2> QED BY <2>1, <2>5, <2>6 DEF N
<1> QED BY <1>11, <1>13, <1>14

(* A set of two cards is a lower and a higher one. *)
LEMMA TwoCards ==
  ASSUME NEW cards \in CardSets, Cardinality(cards) = 2
  PROVE  \E a, b \in cards : a < b /\ cards = {a, b}
<1>1. IsFiniteSet(cards) /\ cards # {} /\ cards \subseteq Int
  BY CardSetFinite DEF CardSets, CardIds
<1>2. PICK a \in cards : \A y \in cards : a <= y
  BY <1>1, MinExists
<1>3. IsFiniteSet(cards \ {a}) /\ Cardinality(cards \ {a}) = 1
  BY <1>1, FS_RemoveElement
<1>4. PICK b : cards \ {a} = {b}
  BY <1>3, FS_Singleton
<1>5. b \in cards /\ b # a /\ cards = {a, b}
  BY <1>4
<1> QED BY <1>1, <1>2, <1>5

(* think(): outside a revolution, on a single card or a pair, a player passes only when no set of *)
(* its cards could be put, although it tries nothing but neighbours of the sorted hand.           *)
THEOREM PoorPassesOnlyWithoutChoice == Spec => []PassOnlyWithoutChoice
<1>1. SearchInv => PassOnlyWithoutChoice
  <2> SUFFICES ASSUME SearchInv, pc = "reply", hand = {}, n <= 2, ~kakumei,
                      NEW cards \in LegalHands
               PROVE  FALSE
    BY DEF PassOnlyWithoutChoice
  <2> DEFINE N == Cardinality(deck)
  <2>1. TypeOK /\ i \in Nat /\ kakumei = FALSE /\ N \in Nat /\ deck # {} /\ n \in {1, 2}
    BY DeckSize, SmallInBounds DEF SearchInv, PoorInv, TypeOK, Asked
  <2>2. ba_last # {} /\ Cardinality(ba_last) = n
    BY DEF SearchInv, PoorInv, LeaderPuts, n
  <2>3. i >= N - (n - 1)
    BY DEF SearchInv, AnswerIsWindow
  <2>4. ASSUME NEW k \in Nat, k + n <= N PROVE ~Allowed(WindowAt(k))
    <3>1. k \in 0 .. i - 1
      BY <2>1, <2>3, <2>4
    <3> QED BY <3>1 DEF SearchInv, TriedInVain, Asked
  <2>5. cards \subseteq deck /\ cards # {} /\ Allowed(cards) /\ deck \in CardSets
    BY <2>1, TefudaCards DEF LegalHands, Allowed, SetKakumei
  <2>6. cards \in CardSets /\ ba_last \in CardSets
    BY <2>1, <2>5, UniverseAssumption DEF TypeOK, CardSets
  <2>7. Cardinality(cards) = n
    <3>1. canPutA(FALSE, cards, ba_last) = OK
      BY <2>1, <2>5, <2>6, RuleBIsRuleA DEF Allowed, SetKakumei, canPut
    <3> QED BY <3>1, <2>2, <2>5, <2>6, PutOnHand
  <2>8. CASE n = 1
    <3>1. PICK c : cards = {c}
      <4>1. IsFiniteSet(cards)
        BY <2>6, CardSetFinite
      <4> QED BY <4>1, <2>7, <2>8, FS_Singleton
    <3>2. PICK m \in 1 .. N : tefuda[m] = c
      BY <2>1, <2>5, <3>1, TefudaCards
    <3>3. m - 1 \in Nat /\ (m - 1) + n <= N /\ (m - 1) + 1 = m
      BY <2>1, <2>8
    <3>4. WindowAt(m - 1) = {tefuda[m]}
      BY <2>1, <2>8, <3>3, SmallWindows
    <3> QED BY <2>4, <2>5, <3>1, <3>2, <3>3, <3>4
  <2>9. CASE n = 2
    <3>1. PICK a, b \in cards : a < b /\ cards = {a, b}
      BY <2>6, <2>7, <2>9, TwoCards
    <3>2. \E k \in Nat : k + 2 <= Cardinality(deck) /\ Allowed(WindowAt(k))
      BY <2>1, <2>2, <2>5, <2>9, <3>1, PairHasNeighbours
    <3> QED BY <3>2, <2>4, <2>9
  <2> QED BY <2>1, <2>8, <2>9
<1> QED BY <1>1, SearchInvariant, PTL

=============================================================================
