-------------------------------- MODULE Turn --------------------------------
(***************************************************************************)
(* The playerStatuses of a match, and what the mutations of MatchService   *)
(* compute from them: a new match, a card that is put or denied, the turn  *)
(* that passes, and who has lost.  They are pure functions; Game applies   *)
(* them at once, Match between a read and a write.                         *)
(***************************************************************************)
EXTENDS Board, FiniteSets

CONSTANTS Players,  \* the two players
          Nobody,   \* no player
          Deck      \* player -> the cards of the deck

ASSUME PlayerAssumption == /\ Nobody \notin Players
                           /\ \E p, q \in Players : p # q /\ Players = {p, q}
ASSUME DeckAssumption == Deck \in [Players -> SUBSET Cards]

Opponent(p) == CHOOSE q \in Players : q # p

Status == [onHand: SUBSET Cards, onBoard: Seq(BoardCard), crystal: Nat,
           inTurn: BOOLEAN, confirmTurn: BOOLEAN]
NoStatuses == [p \in Players |-> [onHand |-> {}, onBoard |-> <<>>, crystal |-> 0,
                                  inTurn |-> FALSE, confirmTurn |-> FALSE]]

\* The players come in a random order; the first is in turn with 3 crystals.
NewStatuses(first) ==
  [p \in Players |-> [onHand |-> Deck[p], onBoard |-> <<>>,
                      crystal |-> IF p = first THEN 3 ELSE 0,
                      inTurn |-> p = first, confirmTurn |-> FALSE]]

\* validateInTurnAction: 'You are not in turn', 'You are confirmed turn'.
MayAct(status) == status.inTurn /\ ~status.confirmTurn

\* A mutation of Put: the card stays in the hand.
PutAndKeep(me, card, position) ==
  [me EXCEPT !.onBoard = Append(@, PutCard(card, @, position)),
             !.crystal = @ - Cost[card]]

\* The card goes from the hand to the end of the board.  A monster that gets
\* equipment is appended in its new form, and stays in its old one.
Put(me, card, position) ==
  [me EXCEPT !.onHand = @ \ {card},
             !.onBoard = Append(@, PutCard(card, @, position)),
             !.crystal = @ - Cost[card]]

\* onHand.filter((c) => c.tokenId === tokenId): the denied card is what is left.
Deny(me, card) ==
  [me EXCEPT !.onHand = {card},
             !.crystal = @ + IF Kind[card] = "MONSTER" THEN 2 ELSE 1]

\* Neither a monster in the hand nor a card on the board.
HasLost(status) ==
  status.onBoard = <<>> /\ \A c \in status.onHand : Kind[c] # "MONSTER"

\* getWinnerStatus: the opponent of the first loser.
Winner(order, all) ==
  IF HasLost(all[order[1]]) THEN order[2]
  ELSE IF HasLost(all[order[2]]) THEN order[1] ELSE Nobody

\* A mutation of PassTurn: the caller keeps the turn.
PassTurnTwice(all, p) ==
  [all EXCEPT ![p].confirmTurn = FALSE,
              ![Opponent(p)].inTurn = TRUE,
              ![Opponent(p)].crystal = @ + 3]

PassTurn(all, p) ==
  [all EXCEPT ![p].inTurn = FALSE, ![p].confirmTurn = FALSE,
              ![Opponent(p)].inTurn = TRUE, ![Opponent(p)].confirmTurn = FALSE,
              ![Opponent(p)].crystal = @ + 3]
=============================================================================
