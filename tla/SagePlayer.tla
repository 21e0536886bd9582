----------------------------- MODULE SagePlayer -----------------------------
(***************************************************************************)
(* The searching player (jni/neof5/SagePlayer.cpp, EvalNode.cpp) over the   *)
(* turns of several games.                                                 *)
(*                                                                         *)
(* think() plays on a plan saved in an earlier turn, or searches breadth    *)
(* first: one call of _think_recursive, a step here, expands all nodes of  *)
(* a level, until a node wins, nothing is left, or the time is up.  A node *)
(* is the path of hands that leads to it.  The points of a hand are used   *)
(* for one question only, whether it is strong (IS_STRONG_HAND), and are    *)
(* kept as exact fractions; the points of a node choose among the children  *)
(* of the root, and that choice is left open.                              *)
(***************************************************************************)
EXTENDS DaifugoRule, Sequences, SequencesExt

CONSTANTS Universe,    \* the cards of the game: CardSet::allCards()
          Deals,       \* the hands a game may start with
          MaxOthers    \* bound: other players that still have cards

ASSUME DealsAssumption == Universe \in CardSets /\ Deals \subseteq SUBSET Universe
ASSUME OthersAssumption == MaxOthers \in Nat

VARIABLES rule,      \* the rule object: "A" or "B"
          deck,      \* ctx.getDeck()
          ba_last,   \* last hand of ctx.getBa(), {} when there is none
          yama,      \* ctx.getYama() and the earlier hands of the field
          kakumei,   \* ctx.isKakumei()
          others,    \* ctx.getNumOfAvailablePlayers() - 1
          pc,        \* "idle", "think", "search", "reply" or "fault"
          nodes,     \* the nodes of the level being searched
          rated,     \* hands of the root's children that have points
          saved,     \* _savedHandsTree, the next hand last
          hand,      \* what think() returned
          how        \* and where it came from

ctx  == <<deck, ba_last, yama, kakumei, others>>
vars == <<rule, deck, ba_last, yama, kakumei, others, pc, nodes, rated, saved, hand, how>>

Nodes == [path : Seq(SUBSET Universe), tefda : SUBSET Universe, kak : BOOLEAN, strong : BOOLEAN]

TypeOK ==
  /\ rule \in Rules
  /\ deck \subseteq Universe /\ ba_last \subseteq Universe /\ yama \subseteq Universe
  /\ kakumei \in BOOLEAN /\ others \in 1 .. MaxOthers
  /\ pc \in {"idle", "think", "search", "reply", "fault"}
  /\ nodes \subseteq Nodes
  /\ rated \subseteq SUBSET Universe
  /\ saved \in Seq((SUBSET Universe) \ {{}})
  /\ hand \in SUBSET Universe
  /\ how \in {"none", "plan", "found", "best"}

---------------------------------------------------------------------------
(* The hands that can be put, and what they are worth *)

genAllCombination_PrunesPairs(kak, tefda, ba) ==
  LET gen[base \in SUBSET tefda] ==
        UNION {LET h == base \cup {c} IN
                 IF canPut(rule, kak, h, ba) = OK THEN {h} \cup gen[h]
                 ELSE IF Cardinality(base) >= 1 THEN {} ELSE gen[h] : c \in tefda \ base}
  IN gen[{}]

\* _genAllCombination adds one card at a time and gives up on three cards or more
\* that cannot be put.
genAllCombination(kak, tefda, ba) ==
  LET gen[base \in SUBSET tefda] ==
        UNION {LET h == base \cup {c} IN
                 IF canPut(rule, kak, h, ba) = OK THEN {h} \cup gen[h]
                 ELSE IF Cardinality(base) >= 2 THEN {} ELSE gen[h] : c \in tefda \ base}
  IN gen[{}]

\* _notappears_cards
notappears == Universe \ (yama \cup deck \cup ba_last)

\* hasNumOf(CARD_STRENGTH_MAX): 14 is the row of the aces.
joker_count == IF hasNumOf(notappears, CARD_STRENGTH_MAX) THEN 1 ELSE 0

\* Cards not seen that hasNumOf(st % 13) yields.
strength_count(st) == Cardinality(NumMask(st % 13) \cap notappears)

\* _calcPotentialToBeFightback(h) < hand_potential_max + 0.5: the points a hand gets
\* above hand_potential_max are fewer than a half.  They are a sum over the
\* strengths above its first card, divided for two cards and more by the
\* number of the other players and, if there are several, of the cards.
IsStrong(h, kak) ==
  LET st     == getStrength(at(h, 0))
      count  == Cardinality(h)
      above  == IF kak THEN 1 .. st - 1 ELSE st + 1 .. CARD_STRENGTH_MAX - 1
      beaten == {s \in above : strength_count(s) > 0 /\ count <= strength_count(s) + joker_count}
      points == MapThenSumSet(LAMBDA s : strength_count(s) + joker_count, beaten)
  IN \/ isJoker(at(h, 0))
     \/ /\ count = 1 /\ joker_count = 0
        /\ \A s \in above : strength_count(s) = 0
     \/ /\ count > 1 /\ ~(count >= 3 /\ getStrength(at(h, 1)) # st)
        /\ points = 0 \/ 2 * points < others * (IF others = 1 THEN 1 ELSE count)

---------------------------------------------------------------------------
(* EvalNode *)

Root == [path |-> <<>>, tefda |-> deck, kak |-> kakumei, strong |-> FALSE]

isRoot(nd) == nd.path = <<>>

\* node->hand.hand, empty for the root and for a pass.
HandOf(nd) == IF isRoot(nd) THEN {} ELSE Last(nd.path)

\* getHeirOfRoot()->hand.hand
HeirHand(nd) == IF isRoot(nd) THEN {} ELSE Head(nd.path)

EvalHand(nd, h) == [hand |-> h, tefda |-> nd.tefda \ h, strong |-> IsStrong(h, nd.kak)]
PassHand(nd)    == [hand |-> {}, tefda |-> nd.tefda, strong |-> FALSE]

createChild_KeepsCards(nd, eh) ==
  [path |-> Append(nd.path, eh.hand), tefda |-> nd.tefda \ HandOf(nd),
   kak |-> IF Cardinality(eh.hand) >= 4 THEN ~nd.kak ELSE nd.kak, strong |-> eh.strong]

\* The hand of the parent is taken off once more; a child that exists is reused,
\* which the path, made of hands, says by itself.
createChild(nd, eh) ==
  [path |-> Append(nd.path, eh.hand), tefda |-> eh.tefda \ HandOf(nd),
   kak |-> IF Cardinality(eh.hand) >= 4 THEN ~nd.kak ELSE nd.kak, strong |-> eh.strong]

saveHandsTree_FromTop(nd) == IF nd.path # <<>> /\ Head(nd.path) = {} THEN Tail(nd.path) ELSE nd.path

\* saveHandsTree: the hands from the node up to the root or to a pass, which can
\* only be the first.
saveHandsTree(nd) ==
  Reverse(IF nd.path # <<>> /\ Head(nd.path) = {} THEN Tail(nd.path) ELSE nd.path)

---------------------------------------------------------------------------
(* _think_recursive: the nodes of one level, in any order (of their addresses) *)

AtRoot == \E nd \in nodes : isRoot(nd)

\* ba_cards: the field for the root, empty below it.
ba_cards == IF AtRoot THEN ba_last ELSE {}

Hands(nd) == genAllCombination(nd.kak, nd.tefda, ba_cards)

\* The hand that empties the player's cards and cannot be answered.
Finishing(nd, h) ==
  /\ nd.tefda = h
  /\ \/ isRoot(nd) \/ nd.strong
     \/ IsStrong(h, nd.kak) /\ Cardinality(h) = Cardinality(HandOf(nd))

Winners(nd) == {h \in Hands(nd) : Finishing(nd, h) /\ canAgari(rule, nd.kak, h) = OK}

\* The hands left for the two lists: a forbidden finish is dropped below the root.
Listed(nd) ==
  {h \in Hands(nd) : ~(Finishing(nd, h) /\ (canAgari(rule, nd.kak, h) = OK \/ ~isRoot(nd)))}

betterHands(nd) == {h \in Listed(nd) : IsStrong(h, nd.kak)}
poorHands(nd)   == Listed(nd) \ betterHands(nd)

\* The strong hands a node goes on with.  After a hand that can be answered only
\* one of its size and two strengths above it; below a pass nothing.
Followers(nd) ==
  {b \in betterHands(nd) :
     /\ isRoot(nd) \/ Len(nd.path) = 1 \/ HeirHand(nd) # {}
     /\ HandOf(nd) # {} /\ ~nd.strong =>
          /\ Cardinality(HandOf(nd)) = Cardinality(b)
          /\ getStrength(at(HandOf(nd), 0)) + (IF nd.kak THEN -2 ELSE 2) <= getStrength(at(b, 0))}

\* nextNodes: a strong hand that overlaps a weak one, or with no weak one; every weak
\* hand that overlaps some strong one not; for the root all weak hands and,
\* unless it leads, the pass.
NextNodes(nd) ==
  LET poor  == poorHands(nd)
      ahead == {b \in Followers(nd) : poor = {} \/ \E p \in poor : p \cap b # {}}
      aside == {p \in poor : isRoot(nd) \/ \E b \in Followers(nd) : p \cap b = {}}
  IN {createChild(nd, EvalHand(nd, h)) : h \in ahead \cup aside}
     \cup IF isRoot(nd) /\ ba_cards # {} THEN {createChild(nd, PassHand(nd))} ELSE {}

\* The node a level may return: one without hands, a winning child, or the root's
\* weak hand of all cards.
Results(nd) ==
  IF Hands(nd) = {} THEN {nd}
  ELSE {createChild(nd, EvalHand(nd, h)) :
          h \in Winners(nd) \cup IF isRoot(nd) THEN poorHands(nd) \cap {nd.tefda} ELSE {}}

\* root.findBestParamChild(): among the children of the root that have points, which
\* a child gets with its first hand, also when that is a forbidden finish.
Candidates ==
  IF rated # {} THEN rated
  ELSE {HeirHand(nd) : nd \in {m \in nodes : ~isRoot(m) /\ Hands(m) # {}}}

---------------------------------------------------------------------------
(* think() *)

Reply(h, from) ==
  /\ hand' = h /\ how' = from
  /\ pc' = "reply" /\ nodes' = {} /\ rated' = {}
  /\ UNCHANGED <<rule, ctx>>

UsePlan_AnyCards ==
  /\ pc = "think" /\ saved # <<>>
  /\ canPut(rule, kakumei, Last(saved), ba_last) = OK
  /\ saved' = Front(saved)
  /\ Reply(Last(saved), "plan")

CanUsePlan ==
  /\ saved # <<>> /\ Last(saved) \subseteq deck
  /\ canPut(rule, kakumei, Last(saved), ba_last) = OK

\* The next hand of the plan is there and can be put.
UsePlan ==
  /\ pc = "think" /\ CanUsePlan
  /\ saved' = Front(saved)
  /\ Reply(Last(saved), "plan")

\* Otherwise the plan is dropped and think2() begins.
StartSearch ==
  /\ pc = "think" /\ ~CanUsePlan
  /\ saved' = <<>>
  /\ pc' = "search" /\ nodes' = {Root} /\ rated' = {}
  /\ UNCHANGED <<rule, ctx, hand, how>>

\* The search returns a node: its plan is saved but for the last entry, and the
\* hand below the root is put.
Found ==
  /\ pc = "search"
  /\ \E nd \in nodes : \E result \in Results(nd) :
       /\ saved' = LET plan == saveHandsTree(result)
                   IN IF plan = <<>> THEN plan ELSE Front(plan)
       /\ Reply(HeirHand(result), "found")

\* No node came back: the child with the best points, if there is one.  A root without
\* children has a NULL vector, which getChildAt(-1) dereferences.
BestOrFault ==
  \/ \E h \in Candidates : Reply(h, "best")
  \/ /\ Candidates = {}
     /\ pc' = "fault" /\ nodes' = {} /\ rated' = {}
     /\ UNCHANGED <<rule, ctx, hand, how>>

\* time(NULL) > timelimit, at any hand that is not dropped or put before.
TimeUp ==
  /\ pc = "search" /\ \E nd \in nodes : Listed(nd) # {}
  /\ BestOrFault
  /\ UNCHANGED saved

NoResult == pc = "search" /\ \A nd \in nodes : Results(nd) = {}

NextLevel == UNION {NextNodes(nd) : nd \in nodes}

\* The whole level is done: on to the children.
Deepen ==
  /\ NoResult /\ NextLevel # {}
  /\ nodes' = NextLevel /\ rated' = Candidates
  /\ UNCHANGED <<rule, ctx, pc, saved, hand, how>>

Exhausted ==
  /\ NoResult /\ NextLevel = {}
  /\ BestOrFault
  /\ UNCHANGED saved

---------------------------------------------------------------------------
(* The games around it *)

Init ==
  /\ rule \in Rules /\ deck \in Deals
  /\ ba_last = {} /\ yama = {} /\ kakumei = FALSE /\ others = MaxOthers
  /\ pc = "idle" /\ nodes = {} /\ rated = {} /\ hand = {} /\ how = "none"
  /\ saved = <<>>

\* The message is taken as it comes: nothing asks whether the last hand of the field
\* is one the rule would have allowed.
ProcessTurn(field, gone, kak, n) ==
  /\ pc = "idle" /\ deck # {}
  /\ ba_last' = field /\ yama' = gone /\ kakumei' = kak /\ others' = n
  /\ pc' = "think"
  /\ UNCHANGED <<rule, deck, nodes, rated, saved, hand, how>>

\* The server takes the hand off the player's cards; the context, a local of
\* onMessage(), is gone.
PutDone ==
  /\ pc = "reply"
  /\ deck' = deck \ hand /\ pc' = "idle" /\ hand' = {} /\ how' = "none"
  /\ ba_last' = {} /\ yama' = {} /\ kakumei' = FALSE /\ others' = MaxOthers
  /\ UNCHANGED <<rule, nodes, rated, saved>>

\* A game is over and the next one dealt; the player object goes on.
NewGame(deal) ==
  /\ pc = "idle"
  /\ deck' = deal
  /\ UNCHANGED <<rule, ba_last, yama, kakumei, others, pc, nodes, rated, saved, hand, how>>

Next ==
  \/ \E field \in SUBSET (Universe \ deck) : \E gone \in SUBSET (Universe \ (deck \cup field)) :
       \E kak \in BOOLEAN, n \in 1 .. MaxOthers : ProcessTurn(field, gone, kak, n)
  \/ UsePlan \/ StartSearch \/ Found \/ TimeUp \/ Deepen \/ Exhausted
  \/ PutDone
  \/ \E deal \in Deals : NewGame(deal)

Spec == Init /\ [][Next]_vars

---------------------------------------------------------------------------
(* Properties *)

\* Whatever it comes from, a search cut short or a plan made for another trick or
\* another game, the hand is the player's own and may be put, and a leader puts one.
PutIsLegal ==
  pc = "reply" =>
    /\ hand \subseteq deck
    /\ canPut(rule, kakumei, hand, ba_last) = OK
    /\ ba_last = {} => hand # {}

\* Along a path no card is put twice and a node holds exactly the cards left.
NodesHoldTheRest ==
  \A nd \in nodes :
    /\ nd.tefda = deck \ UNION Range(nd.path)
    /\ \A i, j \in DOMAIN nd.path : i # j => nd.path[i] \cap nd.path[j] = {}

LegalHands(nd) == {h \in SUBSET nd.tefda : h # {} /\ canPut(rule, nd.kak, h, ba_cards) = OK}

\* Up to three cards on the field no hand that could be put is missed.
EnumeratesUpToThree ==
  \A nd \in nodes : Cardinality(ba_cards) <= 3 => Hands(nd) = LegalHands(nd)

\* A plan found with the first hand put leaves nothing over: hand and plan together
\* are the player's cards, each card in one of them.
PlanPlaysOut ==
  pc = "reply" /\ how = "found" /\ hand # {} =>
    LET plan == Append(saved, hand) IN
    /\ UNION Range(plan) = deck
    /\ \A i, j \in DOMAIN plan : i # j => plan[i] \cap plan[j] = {}

---------------------------------------------------------------------------
(* What the source says of the player, and the code does not do *)

\* Without a best child, the last child is taken.
LastChildTaken == pc # "fault"

=============================================================================
