------------------------------ MODULE Session ------------------------------
(***************************************************************************)
(* What the client promises the game: a session opens once, every turn is   *)
(* answered by the tweets of the player and one Put, what is queued goes    *)
(* out in order, and only the end of the session, of which there is one,    *)
(* leaves anything unsent.  WsThread.tla implements it.                     *)
(***************************************************************************)
EXTENDS Naturals, Sequences

CONSTANT MaxTweets   \* tweets a player sends in one turn

VARIABLES phase,     \* "new", "open" or "over"
          handled,   \* turns handled
          queue,     \* messages waiting
          wire       \* messages sent

vars == <<phase, handled, queue, wire>>

Messages == [kind : {"Tweet", "Put"}, turn : Nat]
Tweets(turn, n) == [k \in 1 .. n |-> [kind |-> "Tweet", turn |-> turn]]
Put(turn) == [kind |-> "Put", turn |-> turn]

TypeOK ==
  /\ phase \in {"new", "open", "over"}
  /\ handled \in Nat
  /\ queue \in Seq(Messages) /\ wire \in Seq(Messages)

Init == phase = "new" /\ handled = 0 /\ queue = <<>> /\ wire = <<>>

Open == phase = "new" /\ phase' = "open" /\ UNCHANGED <<handled, queue, wire>>

\* A turn: n tweets, then the hand.
Answer(n) ==
  /\ phase = "open"
  /\ handled' = handled + 1
  /\ queue' = queue \o Append(Tweets(handled + 1, n), Put(handled + 1))
  /\ UNCHANGED <<phase, wire>>

Send ==
  /\ phase = "open" /\ queue # <<>>
  /\ wire' = Append(wire, Head(queue)) /\ queue' = Tail(queue)
  /\ UNCHANGED <<phase, handled>>

\* The end may come while a message is being sent.
End ==
  /\ phase # "over" /\ phase' = "over"
  /\ queue' = queue \/ (queue # <<>> /\ queue' = Tail(queue))
  /\ UNCHANGED <<handled, wire>>

Next == Open \/ (\E n \in 0 .. MaxTweets : Answer(n)) \/ Send \/ End

Safe == Init /\ [][Next]_vars

\* While the session is open what waits is sent.
Spec == Safe /\ WF_vars(Send)

---------------------------------------------------------------------------

Out == wire \o queue

\* Messages are in the order of their turns, tweets before the Put of their turn.
Ordered(s) ==
  \A i, j \in DOMAIN s : i < j =>
    s[i].turn < s[j].turn \/ (s[i].turn = s[j].turn /\ s[i].kind = "Tweet")

\* Every turn handled is answered by one Put, in the order of the turns and after the
\* tweets of its turn, be it still queued or sent; only the end of the session loses one.
AnswersInOrder ==
  /\ Ordered(Out)
  /\ phase # "over" => \A turn \in 1 .. handled : \E i \in DOMAIN Out : Out[i] = Put(turn)
=============================================================================
