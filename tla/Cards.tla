------------------------------- MODULE Cards -------------------------------
(***************************************************************************)
(* Cards and card sets of the game (jni/neof5/Cards.cpp, Cards.hpp).       *)
(*                                                                         *)
(* A Card is its index into the table _cards: ranks in the order           *)
(* 3 4 ... K A 2, four suits to a rank, the joker last.  A CardSet is the   *)
(* set of the cards whose bit is set, so that |=, &~ and & are \cup, \ and *)
(* \cap, and the loops over the 53 bits are Cardinality and Min.           *)
(***************************************************************************)
EXTENDS Integers, FiniteSets, FiniteSetsExt

CardIds == 0 .. 52

JOKER == 52

CARD_STRENGTH_MAX == 14

isJoker(c) == c = JOKER

\* Suits are the enumerators of Cards.hpp in the order of the table.
SuitNames == <<"CLV", "DIA", "HRT", "SPD">>

getSuit(c) == IF isJoker(c) THEN "JKR" ELSE SuitNames[(c % 4) + 1]

\* The low nibble of _cards[c]: 3..13 for 3..K, 1 for an ace, 2 for a two, and
\* 0 for the joker.
getNum(c) == IF isJoker(c) THEN 0 ELSE (((c \div 4) + 2) % 13) + 1

getStrength(c) == IF isJoker(c) THEN CARD_STRENGTH_MAX
                                ELSE 1 + ((getNum(c) + 10) % 13)

\* compare() is the difference of the indices.
compareTo(a, b) == a - b

---------------------------------------------------------------------------
(* CardSet *)

CardSets == SUBSET CardIds

\* The cards of one rank: the nibble 0x0f << 4*((num+10)%13).  num is the number
\* printed on the card, 1 for an ace; nothing stops a caller passing 14.
NumMask(num) == LET base == 4 * ((num + 10) % 13) IN base .. base + 3

hasNumOf(cards, num) == NumMask(num) \cap cards # {}

\* extractJoker() takes the joker out and tells how many it took.
WithoutJoker(cards) == cards \ {JOKER}
JokerCount(cards)   == IF JOKER \in cards THEN 1 ELSE 0

\* at(i), from 0: the card of the set with i smaller ones.  An index past the
\* end throws; no caller modelled here passes one.
at(cards, i) == CHOOSE c \in cards : Cardinality({d \in cards : d < c}) = i

\* conv2Vector() lists the set by index, which is also the order std::sort
\* gives it with Card::operator<.
conv2Vector(cards) == [i \in 1 .. Cardinality(cards) |-> at(cards, i - 1)]

---------------------------------------------------------------------------
(* The text form a card has in the JSON messages: a suit letter and a rank   *)
(* letter, <<"J", "K">> for the joker.                                     *)

SuitLetter == [CLV |-> "C", DIA |-> "D", HRT |-> "H", SPD |-> "S", JKR |-> "J"]

\* Position n is the letter of getNum() = n - 1; 0, the joker, prints a K.
NumLetters == <<"K", "A", "2", "3", "4", "5", "6", "7", "8", "9", "0", "J", "Q", "K">>

toString(c) == <<SuitLetter[getSuit(c)], NumLetters[getNum(c) + 1]>>

\* A table that reads the ten's 0 as one row too low.
RankRow_TenOff == [r \in {NumLetters[i] : i \in 1 .. 14} |->
              CASE r = "2" -> 12 [] r = "A" -> 11 [] r = "K" -> 10
                [] r = "Q" -> 9  [] r = "J" -> 8  [] r = "0" -> 6
                [] r = "9" -> 6  [] r = "8" -> 5  [] r = "7" -> 4
                [] r = "6" -> 3  [] r = "5" -> 2  [] r = "4" -> 1
                [] r = "3" -> 0]

\* _calcCardIdFromString: anything but C, D, H, S in front is the joker,
\* whatever follows; the rank letter gives the row of the table.
RankRow == [r \in {NumLetters[i] : i \in 1 .. 14} |->
              CASE r = "2" -> 12 [] r = "A" -> 11 [] r = "K" -> 10
                [] r = "Q" -> 9  [] r = "J" -> 8  [] r = "0" -> 7
                [] r = "9" -> 6  [] r = "8" -> 5  [] r = "7" -> 4
                [] r = "6" -> 3  [] r = "5" -> 2  [] r = "4" -> 1
                [] r = "3" -> 0]

SuitColumn == [C |-> 0, D |-> 1, H |-> 2, S |-> 3]

fromString(s) == IF s[1] \in DOMAIN SuitColumn
                 THEN RankRow[s[2]] * 4 + SuitColumn[s[1]]
                 ELSE JOKER

\* CardSet::toString and CardSet(const char*): the list of the cards' texts,
\* and the set of the cards it lists.
CardSetToString(cards) == LET v == conv2Vector(cards)
                          IN [i \in DOMAIN v |-> toString(v[i])]

CardSetFromString(s) == {fromString(s[i]) : i \in DOMAIN s}

=============================================================================
