---------------------------- MODULE DaifugoRule ----------------------------
(***************************************************************************)
(* The rules of play (jni/neof5/DaifugoRule.cpp): which cards may be put   *)
(* on the last hand of the field, and with which a player may finish.      *)
(*                                                                         *)
(* The rule object keeps one bit, _isKakumei, which every caller sets       *)
(* before it asks; it is the parameter `kakumei' here.  The chk_result_t   *)
(* strings are named by their constants, and NULL is OK.                   *)
(***************************************************************************)
EXTENDS Cards

OK                  == "OK"
ERR_DIFFERENT_NUM   == "ERR_DIFFERENT_NUM"
ERR_COUNT_UNMATCH   == "ERR_COUNT_UNMATCH"
ERR_INVALID_BA      == "ERR_INVALID_BA"
ERR_NOT_STRONG      == "ERR_NOT_STRONG"
ERR_JOKER_AGARI     == "ERR_JOKER_AGARI"
ERR_2_AGARI         == "ERR_2_AGARI"
ERR_BA_ISNOT_KAIDAN == "ERR_BA_ISNOT_KAIDAN"
ERR_NOT_KAIDAN      == "ERR_NOT_KAIDAN"

---------------------------------------------------------------------------
(* Rule A *)

\* _tryGetFirstCard succeeds on a non-empty set whose cards, the joker aside,
\* have one number ...
HasFirstCard(cards) ==
  /\ cards # {}
  /\ \A c, d \in WithoutJoker(cards) : getNum(c) = getNum(d)

\* ... and yields its first card that is not the joker: the smallest card, since
\* the joker is the largest.
FirstCard(cards) == Min(cards)

\* Positive when b is the stronger card.
compareCards(kakumei, a, b) ==
  LET ret == IF compareTo(a, b) > 0 THEN -1 ELSE 1 IN
  IF getNum(a) = getNum(b) THEN 0
  ELSE IF isJoker(a) THEN -1
  ELSE IF isJoker(b) THEN 1
  ELSE IF kakumei THEN -ret ELSE ret

\* A plausible slip in canPut: an equally strong hand goes through.
canPutA_EqualAllowed(kakumei, cards, ba_last) ==
  IF cards = {} THEN OK
  ELSE IF ~HasFirstCard(cards) THEN ERR_DIFFERENT_NUM
  ELSE IF ba_last = {} THEN OK
  ELSE IF Cardinality(ba_last) # Cardinality(cards) THEN ERR_COUNT_UNMATCH
  ELSE IF ~HasFirstCard(ba_last) THEN ERR_INVALID_BA
  ELSE IF compareCards(kakumei, FirstCard(ba_last), FirstCard(cards)) < 0
       THEN ERR_NOT_STRONG
  ELSE OK

\* DaifugoRuleA::canPut; an empty set is a pass.
canPutA(kakumei, cards, ba_last) ==
  IF cards = {} THEN OK
  ELSE IF ~HasFirstCard(cards) THEN ERR_DIFFERENT_NUM
  ELSE IF ba_last = {} THEN OK
  ELSE IF Cardinality(ba_last) # Cardinality(cards) THEN ERR_COUNT_UNMATCH
  ELSE IF ~HasFirstCard(ba_last) THEN ERR_INVALID_BA
  ELSE IF compareCards(kakumei, FirstCard(ba_last), FirstCard(cards)) <= 0
       THEN ERR_NOT_STRONG
  ELSE OK

canAgariA(kakumei, cards) == OK

---------------------------------------------------------------------------
(* Rule B *)

\* b is the successor of a in the sorted list of cards.
Adjacent(cards, a, b) ==
  a < b /\ \A c \in cards : ~(a < c /\ c < b)

\* pj when the loop of _isKaidan reaches card a: it has added up the gaps below
\* a, that is the distance from the first card less the steps taken.
JokersSpent(cards, a) ==
  (a - Min(cards)) - Cardinality({c \in cards : c < a})

\* _isKaidan: three cards or more of one suit whose gaps the joker can fill.
\* compareTo is the difference of the table indices.
isKaidan(cards) ==
  LET list == WithoutJoker(cards) IN
  /\ Cardinality(cards) >= 3
  /\ \A c, d \in list : getSuit(c) = getSuit(d)
  /\ \A a, b \in list : Adjacent(list, a, b) =>
       compareTo(b, a) - 1 <= JokerCount(cards) - JokersSpent(list, a)

\* DaifugoRuleB::canPut: rule A first, then the kaidan cases.
canPutB(kakumei, cards, ba_last) ==
  LET ret == canPutA(kakumei, cards, ba_last) IN
  IF ret = OK THEN OK
  ELSE IF ba_last = {} THEN IF isKaidan(cards) THEN OK ELSE ret
  ELSE IF ~isKaidan(ba_last)
       THEN IF isKaidan(cards) THEN ERR_BA_ISNOT_KAIDAN ELSE ret
  ELSE IF ~isKaidan(cards) THEN ERR_NOT_KAIDAN
  ELSE IF compareCards(kakumei, Min(WithoutJoker(cards)),
                                Max(WithoutJoker(ba_last))) > 0
       THEN OK
  ELSE ERR_NOT_STRONG

canAgariB(kakumei, cards) ==
  LET tmpc == WithoutJoker(cards) IN
  IF tmpc = {} THEN ERR_JOKER_AGARI
  ELSE IF hasNumOf(tmpc, IF kakumei THEN 3 ELSE 2) THEN ERR_2_AGARI
  ELSE OK

---------------------------------------------------------------------------
(* The virtual calls through IDaifugoRule *)

Rules == {"A", "B"}

canPut(rule, kakumei, cards, ba_last) ==
  IF rule = "B" THEN canPutB(kakumei, cards, ba_last)
                ELSE canPutA(kakumei, cards, ba_last)

canAgari(rule, kakumei, cards) ==
  IF rule = "B" THEN canAgariB(kakumei, cards) ELSE canAgariA(kakumei, cards)

=============================================================================
