------------------------------- MODULE MCDeck -------------------------------
(* Instances of Deck for TLC.                                                *)
EXTENDS Deck, TLC

CONSTANTS u1, u2, t1, t2, t3, e1, e2, e3

\* A player with two tabs and one with a single tab; pieces of equipment only,
\* one more than a half holds.
MCSlots == {<<u1, t1>>, <<u1, t2>>, <<u2, t3>>}
MCMonsters == {}

\* The tabs of u1 are interchangeable, and so are the pieces of equipment.
Symmetric == Permutations({t1, t2}) \cup Permutations({e1, e2, e3})
=============================================================================
