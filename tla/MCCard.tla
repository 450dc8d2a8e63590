------------------------------- MODULE MCCard -------------------------------
(* Instances of Card for TLC.                                                *)
EXTENDS Card, TLC

CONSTANTS u1, u2, t1, t2

\* A player with two tabs; u2 only receives tokens.
MCTabs == {<<u1, t1>>, <<u1, t2>>}

\* The tabs are interchangeable.
Symmetric == Permutations({t1, t2})
=============================================================================
