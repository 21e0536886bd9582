------------------------------- MODULE Trick -------------------------------
(***************************************************************************)
(* The field of the game under the client's rule object: hands are put one *)
(* on another while canPut allows it, until the field is cleared.  Any      *)
(* player may put any legal hand; what the moves do to the field is the     *)
(* game the players of jni/neof5 reckon with (EvalNode.cpp, SagePlayer.cpp)*)
(***************************************************************************)
EXTENDS DaifugoRule, Sequences

CONSTANTS Pack,  \* the cards in play
          Rule   \* "A" or "B"

ASSUME PackAssumption == Pack \in CardSets
ASSUME RuleAssumption == Rule \in Rules

VARIABLES rest,       \* cards nobody has put yet
          ba,         \* the hands of the current trick, last one on top
          revolution  \* ctx.isKakumei(): the order of the numbers is reversed

trickVars == <<rest, ba, revolution>>

\* A card on the field is no longer to be put.
TrickTypeOK ==
  /\ rest \in SUBSET Pack
  /\ ba \in Seq(SUBSET Pack)
  /\ revolution \in BOOLEAN
  /\ \A i \in DOMAIN ba : ba[i] \cap rest = {}

baLast == IF ba = <<>> THEN {} ELSE ba[Len(ba)]

\* Four cards or more turn the order round.
RevolutionSize == 4

TrickInit ==
  /\ rest = Pack
  /\ ba = <<>>
  /\ revolution \in BOOLEAN

Put(cards) ==
  /\ cards # {}
  /\ canPut(Rule, revolution, cards, baLast) = OK
  /\ rest' = rest \ cards
  /\ ba' = Append(ba, cards)
  /\ revolution' = (revolution # (Cardinality(cards) >= RevolutionSize))

\* Everyone else passed: the next player leads on an empty field.
Clear ==
  /\ ba # <<>>
  /\ ba' = <<>>
  /\ UNCHANGED <<rest, revolution>>

TrickNext == (\E cards \in SUBSET rest : Put(cards)) \/ Clear

TrickSpec == TrickInit /\ [][TrickNext]_trickVars

---------------------------------------------------------------------------
(* Properties *)

\* canPut orders a trick: while no hand of it turned the order round, every hand
\* beats every hand below it, not only the one it was put on, and could not have
\* been put the other way round.
TrickMonotone ==
  (\A i \in DOMAIN ba : Cardinality(ba[i]) < RevolutionSize) =>
    \A i, j \in DOMAIN ba : i < j =>
      /\ canPut(Rule, revolution, ba[j], ba[i]) = OK
      /\ canPut(Rule, revolution, ba[i], ba[j]) # OK

\* Every hand on the field survives CardSet::toString and CardSet(const char*),
\* the two ends of the JSON messages.
CodecRoundTrip ==
  \A i \in DOMAIN ba : CardSetFromString(CardSetToString(ba[i])) = ba[i]

\* Three or more cards of one suit in consecutive ranks.
Staircase(cards) ==
  LET ranks == {getStrength(c) : c \in cards} IN
  /\ Cardinality(cards) >= 3
  /\ JOKER \notin cards
  /\ \A c, d \in cards : getSuit(c) = getSuit(d)
  /\ ranks = Min(ranks) .. Max(ranks)

\* What DaifugoRuleB::canPut says of an empty field (line 151): a staircase may
\* lead.  The code refuses every one of them.
KaidanMayLead ==
  ba = <<>> => \A cards \in SUBSET rest :
    Staircase(cards) => canPutB(revolution, cards, {}) = OK

=============================================================================
