----------------------------- MODULE PoorPlayer -----------------------------
(***************************************************************************)
(* The simple player (jni/neof5/PoorPlayer.cpp) over the turns of a game.  *)
(*                                                                         *)
(* ProcessTurn gives the player a context: its own cards, the last hand of *)
(* the field and whether there is a revolution.  think() sorts the cards   *)
(* and tries every window of n neighbours from the front, n being the size *)
(* of the hand on the field, and returns the first one the rule allows.     *)
(* What the other players put is the environment.                          *)
(***************************************************************************)
EXTENDS DaifugoRule, Sequences

CONSTANTS Universe,     \* the cards in play
          SizeModulus,  \* number of values of a size_t
          FaultIndex    \* iteration at which a read past the end has faulted

ASSUME UniverseAssumption == Universe \in CardSets
ASSUME SizeAssumption ==
  /\ SizeModulus \in Nat
  /\ FaultIndex \in Nat
  /\ 53 < SizeModulus - 53 /\ FaultIndex < SizeModulus - 53

VARIABLES rule,     \* the rule object: "A" or "B"
          deck,     \* ctx.getDeck(): the player's cards
          ba_last,  \* last element of ctx.getBa(), {} when there is none
          kakumei,  \* ctx.isKakumei()
          rule_kakumei, \* _isKakumei of the rule object, which outlives the turn
          pc,       \* "idle", "think", "reply", or "fault" when the process died
          i,        \* loop variable of think()
          hand      \* the value think() returned

vars == <<rule, deck, ba_last, kakumei, rule_kakumei, pc, i, hand>>

TypeOK ==
  /\ rule \in Rules
  /\ deck \in SUBSET Universe
  /\ ba_last \in SUBSET Universe
  /\ kakumei \in BOOLEAN
  /\ rule_kakumei \in BOOLEAN
  /\ pc \in {"idle", "think", "reply", "fault"}
  /\ i \in Nat
  /\ hand \in CardSets

---------------------------------------------------------------------------
(* think() *)

Reverse(s) == [k \in DOMAIN s |-> s[(Len(s) + 1) - k]]

tefuda_AlwaysReversed == Reverse(conv2Vector(deck))

\* std::sort, and std::reverse in a revolution.
tefuda == LET v == conv2Vector(deck) IN IF kakumei THEN Reverse(v) ELSE v

\* The number of cards to put: one when leading.
n == IF ba_last = {} THEN 1 ELSE Cardinality(ba_last)

\* tefuda.size() - (n - 1) is computed in size_t and wraps.
Limit == (Cardinality(deck) - (n - 1)) % SizeModulus

\* Elements i .. i+n-1 of tefuda, counted from 0, that exist.
Window == {tefuda[j] : j \in (i + 1 .. i + n) \cap DOMAIN tefuda}

\* How many of them lie past the end of the vector.
Overrun == IF i + n <= Cardinality(deck) THEN 0 ELSE (i + n) - Cardinality(deck)

Return(cards) ==
  /\ hand' = cards
  /\ pc' = "reply"
  /\ UNCHANGED <<rule, deck, ba_last, kakumei, i>>

Advance_Two == i' = i + 2

\* i++
Advance == i' = i + 1

SetKakumei_Kept == rule_kakumei

\* _rule->setKakumei(ctx.isKakumei()), before every question to the rule: the object
\* still holds the order of an earlier turn, or whatever it was created with.
SetKakumei == kakumei

\* _rule->canPut(), after setKakumei(), accepts the cards.
Allowed(cards) == canPut(rule, SetKakumei, cards, ba_last) = OK

\* One iteration of the loop.  Elements past the end are whatever the heap holds:
\* they read as some cards, unless the read faults.
Try(garbage) ==
  LET cards == Window \cup garbage IN
  /\ pc = "think" /\ i < Limit
  /\ Overrun > 0 => i < FaultIndex
  /\ Cardinality(garbage) <= Overrun
  /\ rule_kakumei' = SetKakumei
  /\ \/ /\ Allowed(cards)
        /\ Return(cards)
     \/ /\ ~Allowed(cards)
        /\ Advance
        /\ UNCHANGED <<rule, deck, ba_last, kakumei, pc, hand>>

\* A read past the end may fault, and does so at the latest at FaultIndex.
Fault ==
  /\ pc = "think" /\ i < Limit /\ Overrun > 0
  /\ pc' = "fault"
  /\ UNCHANGED <<rule, deck, ba_last, kakumei, rule_kakumei, i, hand>>

\* The loop is over: return CardSet(), a pass.
Pass ==
  /\ pc = "think" /\ ~(i < Limit)
  /\ Return({})
  /\ UNCHANGED rule_kakumei

---------------------------------------------------------------------------
(* The game around it *)

Init ==
  /\ rule \in Rules
  /\ deck \in SUBSET Universe
  /\ ba_last = {} /\ kakumei \in BOOLEAN
  /\ rule_kakumei \in BOOLEAN  \* the class has no constructor: anything
  /\ pc = "idle" /\ i = 0 /\ hand = {}

\* ProcessTurn: it is this player's turn, on a field left by the others, who do
\* not hold this player's cards.  The last hand of the field is taken as it comes:
\* nothing here asks whether it is one the rule would have allowed.
ProcessTurn(field, kak) ==
  /\ pc = "idle" /\ deck # {}
  /\ field \cap deck = {}
  /\ ba_last' = field /\ kakumei' = kak
  /\ pc' = "think" /\ i' = 0 /\ hand' = {}
  /\ UNCHANGED <<rule, deck, rule_kakumei>>

\* The server takes the hand off the player's cards.
PutDone ==
  /\ pc = "reply"
  /\ deck' = deck \ hand
  /\ pc' = "idle"
  /\ UNCHANGED <<rule, ba_last, kakumei, rule_kakumei, i, hand>>

Next ==
  \/ \E field \in SUBSET Universe, kak \in BOOLEAN : ProcessTurn(field, kak)
  \/ \E garbage \in SUBSET Universe : Try(garbage)
  \/ Fault
  \/ Pass
  \/ PutDone

Spec == Init /\ [][Next]_vars

---------------------------------------------------------------------------
(* Properties *)

\* The hand is at least n - 1 cards: tefuda.size() - (n - 1) does not wrap.
InBounds == Cardinality(deck) >= n - 1

\* As long as the loop bound does not wrap, the player only puts cards it holds
\* and only a hand the rule allows on the field in the order of this turn, whatever
\* order the rule object was left with by the turn before.
PutIsLegal ==
  pc = "reply" /\ InBounds =>
    /\ hand \subseteq deck
    /\ canPut(rule, kakumei, hand, ba_last) = OK

\* A player that leads puts a card: a game in which everyone passes on an empty
\* field would never end.
LeaderPuts ==
  pc = "reply" /\ ba_last = {} => hand # {}

LegalHands == {cards \in SUBSET deck : cards # {} /\ canPut(rule, kakumei, cards, ba_last) = OK}

\* Without a revolution, on a single card or a pair, think() passes only when no
\* hand of the player could be put, whatever cards it is made of.
PassOnlyWithoutChoice ==
  pc = "reply" /\ hand = {} /\ n <= 2 /\ ~kakumei => LegalHands = {}

\* A single card put is the weakest one that could be put: the reversed order of
\* a revolution is wrong for the joker only.
WeakestSingle ==
  pc = "reply" /\ hand # {} /\ n = 1 /\ (kakumei => JOKER \notin deck) =>
    \A cards \in LegalHands : Cardinality(cards) = 1 =>
      compareCards(kakumei, FirstCard(hand), FirstCard(cards)) >= 0

---------------------------------------------------------------------------
(* What the source says of think(), and the code does not do *)

\* "There is no choise but to Pass": the end of the loop means no hand exists.
PassMeansNoHand ==
  pc = "reply" /\ hand = {} => LegalHands = {}

\* With too few cards for the field there is nothing to put, and think() passes.
PassWhenTooFew ==
  /\ pc = "reply" /\ Cardinality(deck) < n => hand = {}
  /\ pc # "fault"

\* Weak cards go first, and the joker is the strongest in a revolution too.
WeakCardsFirst ==
  pc = "reply" /\ n = 1 /\ hand # {} =>
    \A cards \in LegalHands : Cardinality(cards) = 1 =>
      compareCards(kakumei, FirstCard(hand), FirstCard(cards)) >= 0

\* A forbidden finish is not put.
FinishIsAllowed ==
  pc = "reply" /\ hand = deck => canAgari(rule, kakumei, hand) = OK

=============================================================================
