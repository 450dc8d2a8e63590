-------------------------------- MODULE Game --------------------------------
(***************************************************************************)
(* What a match promises: a game of turns whose moves are atomic.  A move  *)
(* begins while the game is on, takes effect on the statuses of that very  *)
(* moment, or has none; when the game is over, no move begins, and it      *)
(* stays over.                                                             *)
(***************************************************************************)
EXTENDS Turn

VARIABLES order,    \* the players in their order, <<>>: not started
          statuses, \* player -> his status
          begun,    \* the players whose moves have begun
          over      \* the game is decided

vars == <<order, statuses, begun, over>>

Init ==
  /\ order = <<>>
  /\ statuses = NoStatuses
  /\ begun = {}
  /\ over = FALSE

Start ==
  /\ order = <<>>
  /\ \E p \in Players : order' = <<p, Opponent(p)>> /\ statuses' = NewStatuses(p)
  /\ UNCHANGED <<begun, over>>

Begin(p) ==
  /\ order # <<>> /\ ~over
  /\ begun' = begun \cup {p}
  /\ UNCHANGED <<order, statuses, over>>

Drop ==
  /\ begun' \in SUBSET begun
  /\ UNCHANGED <<order, statuses, over>>

\* Put or deny a card, or attack: the player in turn, until he has confirmed.
Act(p) ==
  LET me == statuses[p] IN
  /\ MayAct(me)
  /\ \/ \E card \in me.onHand, position \in Positions :
          /\ CanPut(me.crystal, card, me.onBoard, position)
          /\ statuses' = [statuses EXCEPT ![p] = Put(me, card, position)]
     \/ \E card \in me.onHand : statuses' = [statuses EXCEPT ![p] = Deny(me, card)]
     \/ \E board \in Attack(me.onBoard, statuses[Opponent(p)].onBoard) :
          statuses' = [statuses EXCEPT ![Opponent(p)].onBoard = board,
                                       ![p].confirmTurn = TRUE]

EndTurn(p) ==
  /\ statuses[p].inTurn /\ statuses[p].confirmTurn
  /\ statuses' = PassTurn(statuses, p)

Move(p) ==
  /\ p \in begun
  /\ begun' = begun \ {p}
  /\ Act(p) \/ EndTurn(p)
  /\ UNCHANGED <<order, over>>

Decide ==
  /\ order # <<>> /\ over' = TRUE
  /\ UNCHANGED <<order, statuses, begun>>

Next == Start \/ Drop \/ Decide \/ \E p \in Players : Begin(p) \/ Move(p)

Spec == Init /\ [][Next]_vars
=============================================================================
