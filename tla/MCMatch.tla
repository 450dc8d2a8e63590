------------------------------ MODULE MCMatch ------------------------------
(* Instances of Match for TLC: two small decks.                             *)
EXTENDS Match, TLC

CONSTANTS p1, p2, t1, t2, t3, front, back, shield, charm

\* Clients that wait for each answer, and a p1 with two tabs, which are alike.
MCSerial == {<<p1, t1>>, <<p2, t3>>}
MCTabs == {<<p1, t1>>, <<p1, t2>>, <<p2, t3>>}
Symmetric == Permutations({t1, t2})

MCCards == {front, back, shield, charm}
MCDeck == [p \in {p1, p2} |-> IF p = p1 THEN {front, shield} ELSE {back, charm}]
MCDuel == [p \in {p1, p2} |-> IF p = p1 THEN {front} ELSE {back}]
MCKind == [c \in MCCards |-> IF c \in {front, back} THEN "MONSTER" ELSE "EQUIPMENT"]
MCCost == [c \in MCCards |-> IF c = charm THEN 1 ELSE 2]
MCSkills ==
  [c \in MCCards |->
     CASE c = front -> <<[type |-> "MELEE", value |-> 2], [type |-> "HP", value |-> 1]>>
       [] c = back -> <<[type |-> "RANDOM", value |-> 1], [type |-> "HP", value |-> 2]>>
       [] c = shield -> <<[type |-> "ARMOR", value |-> 1]>>
       [] c = charm -> <<[type |-> "RANGED", value |-> 1]>>]

\* Monsters that kill at a blow, where the board is not the question.
MCSharp == [c \in MCCards |-> <<[type |-> "MELEE", value |-> 1],
                                [type |-> "HP", value |-> 1]>>]
=============================================================================
